---- MODULE Spec2Model ----
(***************************************************************************)
(* Model of the sync layer of report-for-hotspot:                          *)
(*   - maria_cache/sync.py: sync_reference_tables (reference cache sync)   *)
(*   - reports/sync.py: event log, fact-row fetch, full/auto warehouse sync*)
(*   - commands sync_report_user_service_since (windowed sync) and         *)
(*     backfill_report_user_service (backfill merge)                       *)
(* Character strings of the data are sequences of code points, so that     *)
(* strip() and lower() are computed and not assumed.                       *)
(***************************************************************************)
EXTENDS Integers, Sequences, FiniteSets, TLC

(***************************************************************************)
(* Bounds of the model                                                     *)
(***************************************************************************)
\* largest row limit tried (limits range over None, -1, 0 .. MaxLimit)
MaxLimit == 1
\* how many warehouse commands run one after the other
MaxRuns == 2

(***************************************************************************)
(* Values                                                                  *)
(***************************************************************************)
\* SQL NULL / Python None in a string column
Null == << 0 - 1 >>
\* SQL NULL / Python None in a numeric column
NullInt == 0 - 1
\* Python None for an optional integer argument: <<>>; the integer n: <<n>>
None == << >>

Min(a, b) == IF a <= b THEN a ELSE b

Range(s) == { s[i] : i \in 1..Len(s) }

\* s[:n] for n >= 0
Take(s, n) == SubSeq(s, 1, Min(n, Len(s)))

\* code points of the few literals the code compares against
StrYes == << 121, 101, 115 >>
StrAll == << 65, 108, 108 >>
StrNone == << 78, 111, 110, 101 >>

\* str.lower() on one code point: 'A'..'Z' -> 'a'..'z'
LowerChar(c) == IF c >= 65 /\ c <= 90 THEN c + 32 ELSE c

\* str.lower()
Lower(s) == [ i \in 1..Len(s) |-> LowerChar(s[i]) ]

IsSpace(c) == c = 32 \/ c = 9 \/ c = 10 \/ c = 13

RECURSIVE LStrip(_)
LStrip(s) == IF s # << >> /\ IsSpace(Head(s)) THEN LStrip(Tail(s)) ELSE s

RECURSIVE RStrip(_)
RStrip(s) ==
    IF s # << >> /\ IsSpace(s[Len(s)]) THEN RStrip(SubSeq(s, 1, Len(s) - 1)) ELSE s

\* str.strip()
Strip(s) == RStrip(LStrip(s))

\* str(value): None prints as 'None'
Str(v) == IF v = Null THEN StrNone ELSE v

\* maria_cache.sync._bool_yes
BoolYes(value) == Lower(Strip(Str(value))) = StrYes

\* Python `x or default` on a string column: None and '' are falsy
OrStr(v, default) == IF v = Null \/ v = << >> THEN default ELSE v

\* Python `x or 0` on a numeric column: None and 0 are falsy
OrZero(v) == IF v = NullInt THEN 0 ELSE v

(***************************************************************************)
(* Configuration                                                           *)
(***************************************************************************)
SrcA == << 65 >>
SrcB == << 66 >>
\* a source name that is not configured
SrcX == << 88 >>

\* get_sources(): the configured sources, in configuration order
SourceList == << SrcA, SrcB >>
SourceNames == Range(SourceList)

(***************************************************************************)
(* Reference cache: the twelve entity types, in the order they are written *)
(***************************************************************************)
Tables == << "Reseller", "Visp", "Center", "Supporter", "Status", "Service",
             "ResellerPermit", "ServiceResellerAccess", "StatusResellerAccess",
             "ServiceVispAccess", "StatusVispAccess", "CenterVispAccess" >>
TableSet == Range(Tables)

\* a row of a source reference table (the columns the twelve queries select)
Raw(id, name, en, left, right) ==
    [ Id |-> id, Name |-> name, ISEnable |-> en, IsDel |-> en,
      ResellerAccess |-> Null, VispAccess |-> name,
      Left_Id |-> left, Right_Id |-> right, PermitItem_Id |-> id, Checked |-> en ]

\* "Ab", " ab", "Yes", " YES ", "no"
RawRow1 == Raw(1, << 65, 98 >>, << 89, 101, 115 >>, 1, 2)
RawRow2 == Raw(2, Null, << 110, 111 >>, NullInt, 1)
RawRow3 == Raw(3, << 32, 97, 98 >>, << 32, 89, 69, 83, 32 >>, 0, 0)
RawRow4 == Raw(4, << 65, 98 >>, << 89, 101, 115 >>, 1, 2)

\* the contents a source's reference tables can have: data set d, table number t
DataSetIds == { 0, 1, 2 }
SourceTable(d, t) ==
    CASE d = 0 -> << >>
      [] d = 1 -> IF t % 2 = 1 THEN << RawRow1, RawRow2 >> ELSE << RawRow3 >>
      [] OTHER -> CASE t % 3 = 0 -> << >>
                    [] t % 3 = 1 -> << RawRow2 >>
                    [] OTHER -> << RawRow1, RawRow3, RawRow4 >>

\* the lambda builders of sync_reference_tables: the cache item of a source row
Builder(t, name, r) ==
    CASE Tables[t] = "Reseller" ->
           [ source_name |-> name, source_id |-> r.Id, name |-> OrStr(r.Name, << >>),
             name_norm |-> Lower(Strip(OrStr(r.Name, << >>))),
             is_enabled |-> BoolYes(r.ISEnable) ]
      [] Tables[t] \in { "Visp", "Supporter" } ->
           [ source_name |-> name, source_id |-> r.Id, name |-> OrStr(r.Name, << >>),
             is_enabled |-> BoolYes(r.ISEnable) ]
      [] Tables[t] = "Center" ->
           [ source_name |-> name, source_id |-> r.Id, name |-> OrStr(r.Name, << >>),
             is_enabled |-> BoolYes(r.ISEnable),
             visp_access |-> OrStr(r.VispAccess, StrAll) ]
      [] Tables[t] = "Status" ->
           [ source_name |-> name, source_id |-> r.Id, name |-> OrStr(r.Name, << >>),
             is_enabled |-> BoolYes(r.ISEnable),
             reseller_access |-> OrStr(r.ResellerAccess, StrAll),
             visp_access |-> OrStr(r.VispAccess, StrAll) ]
      [] Tables[t] = "Service" ->
           [ source_name |-> name, source_id |-> r.Id, name |-> OrStr(r.Name, << >>),
             is_enabled |-> BoolYes(r.ISEnable), is_deleted |-> BoolYes(r.IsDel),
             reseller_access |-> OrStr(r.ResellerAccess, StrAll),
             visp_access |-> OrStr(r.VispAccess, StrAll) ]
      [] Tables[t] = "ResellerPermit" ->
           [ source_name |-> name, reseller_id |-> OrZero(r.Left_Id),
             visp_id |-> OrZero(r.Right_Id), permit_item_id |-> r.PermitItem_Id,
             is_permit |-> BoolYes(r.Checked) ]
      [] OTHER ->
           [ source_name |-> name, left_id |-> OrZero(r.Left_Id),
             right_id |-> OrZero(r.Right_Id), checked |-> BoolYes(r.Checked) ]

(***************************************************************************)
(* Fact rows: reports/sync.py _fetch_maria_rows                            *)
(***************************************************************************)
\* A creation timestamp TName.CDT is the number 2 * day + h of a half day: h = 0 is
\* midnight 00:00:00, h = 1 a later time of that day.
DateOf(cdt) == cdt \div 2
\* a 'YYYY-MM-DD' parameter compared with a DATETIME column is that day's midnight
Midnight(day) == 2 * day

\* CURDATE()
Today == 3
\* the valid calendar dates a caller passes
Days == 1..Today
\* a date argument that date.fromisoformat rejects
BadDate == << 0 >>
IsIsoDate(d) == d[1] >= 1

\* a row of Huser_servicebase joined to Huser, Hreseller and Hservice
Fact(cdt, creator, rname, usid, user) ==
    [ CDT |-> cdt, Creator_Id |-> creator, ResellerName |-> rname,
      User_ServiceBase_Id |-> usid, Username |-> user ]

\* resellers "b", "a" and none (no Hreseller row); users "u", "v", "w"
Fact1 == Fact(2, 1, << 98 >>, 1, << 117 >>)
Fact2 == Fact(5, 2, << 97 >>, 2, << 117 >>)
Fact3 == Fact(7, 3, Null, 3, << 118 >>)
Fact4 == Fact(4, 1, << 98 >>, 1, << 119 >>)

\* the contents a source's fact table can have (creation timestamps are distinct)
FactSetIds == { 0, 1, 2 }
\* the contents tried for each source: the second source is empty or holds set 2
FactSets == { f \in [ SourceNames -> FactSetIds ] : f[SrcB] \in { 0, 2 } }
FactTable(d) ==
    CASE d = 0 -> << >>
      [] d = 1 -> << Fact1, Fact2 >>
      [] OTHER -> << Fact3, Fact4 >>

\* the WHERE clause: trailing days, start date, end date, combined with AND
Selected(r, days, start, end) ==
    /\ (days # None /\ days[1] > 0) => r.CDT >= Midnight(Today - days[1])
    /\ start # None => r.CDT >= Midnight(start[1])
    /\ end # None => r.CDT <= Midnight(end[1])

\* ORDER BY TName.CDT DESC
RECURSIVE OrderByCdtDesc(_)
OrderByCdtDesc(rows) ==
    IF rows = << >> THEN << >>
    ELSE LET init == OrderByCdtDesc(SubSeq(rows, 1, Len(rows) - 1))
             r == rows[Len(rows)]
             k == Cardinality({ i \in 1..Len(init) : init[i].CDT >= r.CDT })
         IN  SubSeq(init, 1, k) \o << r >> \o SubSeq(init, k + 1, Len(init))

\* LIMIT n, added `if limit and limit > 0`
LimitRows(rows, limit) ==
    IF limit # None /\ limit[1] # 0 /\ limit[1] > 0 THEN Take(rows, limit[1]) ELSE rows

\* the SELECT list, then df['rs_name'] = source['name'] and df['id'] = range(1, n + 1)
\* (ServiceName, ServicePrice, Package, ServiceStatus, StartDate and EndDate are
\* carried through every step unchanged and are left out)
FactRow(name, r, i) ==
    [ id |-> i, CreateDate |-> DateOf(r.CDT), rs_userid |-> r.Creator_Id,
      rs_username |-> r.ResellerName, rs_name |-> name,
      UserServiceID |-> r.User_ServiceBase_Id, username |-> r.Username ]

\* _fetch_maria_rows(source, limit, days, start_date, end_date) on source data set d
FetchMariaRows(name, d, limit, days, start, end) ==
    LET Sel(r) == Selected(r, days, start, end)
        cut == LimitRows(OrderByCdtDesc(SelectSeq(FactTable(d), Sel)), limit)
    IN  [ i \in 1..Len(cut) |-> FactRow(name, cut[i], i) ]

(***************************************************************************)
(* Sorting and numbering a batch                                           *)
(***************************************************************************)
CmpInt(a, b) == IF a < b THEN 0 - 1 ELSE IF a > b THEN 1 ELSE 0

\* comparison of two strings by code point
RECURSIVE CmpStr(_, _)
CmpStr(a, b) ==
    IF a = << >> /\ b = << >> THEN 0
    ELSE IF a = << >> THEN 0 - 1
    ELSE IF b = << >> THEN 1
    ELSE IF Head(a) # Head(b) THEN CmpInt(Head(a), Head(b))
    ELSE CmpStr(Tail(a), Tail(b))

\* one sort key: c compares two non-null values; a null goes first or last
CmpKey(aNull, bNull, c, descending, nullsFirst) ==
    IF aNull /\ bNull THEN 0
    ELSE IF aNull THEN (IF nullsFirst THEN 0 - 1 ELSE 1)
    ELSE IF bNull THEN (IF nullsFirst THEN 1 ELSE 0 - 1)
    ELSE IF descending THEN 0 - c ELSE c

\* by=['rs_username', 'UserServiceID', 'CreateDate'], ascending=[True, True, False]
\* nullsFirst is FALSE for pandas (na_position='last') and, in BigQuery's ORDER BY,
\* TRUE for an ascending key and FALSE for a descending key
RowCmpDateAscending(a, b, nullsFirst) ==
    LET c1 == CmpKey(a.rs_username = Null, b.rs_username = Null,
                     CmpStr(a.rs_username, b.rs_username), FALSE, nullsFirst)
        c2 == CmpKey(a.UserServiceID = NullInt, b.UserServiceID = NullInt,
                     CmpInt(a.UserServiceID, b.UserServiceID), FALSE, nullsFirst)
        c3 == CmpKey(a.CreateDate = NullInt, b.CreateDate = NullInt,
                     CmpInt(a.CreateDate, b.CreateDate), FALSE, FALSE)
    IN  IF c1 # 0 THEN c1 ELSE IF c2 # 0 THEN c2 ELSE c3
RowCmp(a, b, nullsFirst) ==
    LET c1 == CmpKey(a.rs_username = Null, b.rs_username = Null,
                     CmpStr(a.rs_username, b.rs_username), FALSE, nullsFirst)
        c2 == CmpKey(a.UserServiceID = NullInt, b.UserServiceID = NullInt,
                     CmpInt(a.UserServiceID, b.UserServiceID), FALSE, nullsFirst)
        c3 == CmpKey(a.CreateDate = NullInt, b.CreateDate = NullInt,
                     CmpInt(a.CreateDate, b.CreateDate), TRUE, FALSE)
    IN  IF c1 # 0 THEN c1 ELSE IF c2 # 0 THEN c2 ELSE c3

\* df.sort_values(by=..., ascending=..., na_position='last'): several keys are
\* sorted with a stable sort, rows with equal keys keep their order
RECURSIVE SortValues(_)
SortValues(rows) ==
    IF rows = << >> THEN << >>
    ELSE LET init == SortValues(SubSeq(rows, 1, Len(rows) - 1))
             r == rows[Len(rows)]
             k == Cardinality({ i \in 1..Len(init) : RowCmp(init[i], r, FALSE) <= 0 })
         IN  SubSeq(init, 1, k) \o << r >> \o SubSeq(init, k + 1, Len(init))

\* df.reset_index(drop=True); df['id'] = range(1, len(df) + 1)
RenumberKeepIds(rows) == rows
Renumber(rows) == [ i \in 1..Len(rows) |-> [ rows[i] EXCEPT !.id = i ] ]

\* pd.concat(all_dfs, ignore_index=True)
RECURSIVE Concat(_)
Concat(dfs) == IF dfs = << >> THEN << >> ELSE Head(dfs) \o Concat(Tail(dfs))

\* ROW_NUMBER() OVER (ORDER BY rs_username, UserServiceID, CreateDate DESC): every
\* order of the rows that respects the keys; rows with equal keys come in any order
RECURSIVE Rankings(_)
Rankings(rows) ==
    IF rows = << >> THEN { << >> }
    ELSE LET r == Head(rows) IN
         UNION { { SubSeq(s, 1, k) \o << r >> \o SubSeq(s, k + 1, Len(s)) :
                     k \in { j \in 0..Len(s) :
                               /\ \A i \in 1..j : RowCmp(s[i], r, TRUE) <= 0
                               /\ \A i \in (j + 1)..Len(s) : RowCmp(r, s[i], TRUE) <= 0 } } :
                 s \in Rankings(Tail(rows)) }

\* df.to_csv and the CSV load job: an empty field is loaded as NULL
CsvField(v) == IF v = << >> THEN Null ELSE v
CsvLoad(rows) ==
    [ i \in 1..Len(rows) |->
        [ rows[i] EXCEPT !.rs_username = CsvField(@), !.rs_name = CsvField(@),
                         !.username = CsvField(@) ] ]

\* a warehouse table: absent, or present with rows
Absent == [ exists |-> FALSE, rows |-> << >> ]
Table(rows) == [ exists |-> TRUE, rows |-> rows ]

\* a DELETE that finds no row
DeleteNoRow(row, start, end) == FALSE
\* DELETE ... WHERE CreateDate >= DATE(@start_date) [AND CreateDate <= DATE(@end_date)]
DeleteWhereNoEnd(row, start, end) ==
    row.CreateDate # NullInt /\ row.CreateDate >= start[1]
DeleteWhere(row, start, end) ==
    /\ row.CreateDate # NullInt
    /\ row.CreateDate >= start[1]
    /\ end # None => row.CreateDate <= end[1]

(***************************************************************************)
(* Backfill data: reseller map and legacy table                            *)
(***************************************************************************)
Reseller(id, name) == [ Reseller_Id |-> id, ResellerName |-> name ]

\* Hreseller of a source, by data set: names "b", "a", "B " and "  "
ResellerTable(d) ==
    CASE d = 0 -> << >>
      [] d = 1 -> << Reseller(1, << 98 >>), Reseller(2, << 97 >>) >>
      [] OTHER -> << Reseller(4, << 66, 32 >>), Reseller(1, << 98 >>),
                     Reseller(5, << 32, 32 >>), Reseller(6, Null) >>

\* _fetch_reseller_map(source): WHERE ResellerName IS NOT NULL AND ResellerName <> '',
\* creator_norm = str.strip().str.lower(), rs_userid, rs_name = source['name']
FetchResellerMap(name, d) ==
    LET Named(r) == r.ResellerName # Null /\ r.ResellerName # << >>
        rows == SelectSeq(ResellerTable(d), Named)
    IN  [ i \in 1..Len(rows) |->
            [ creator_norm |-> Lower(Strip(rows[i].ResellerName)),
              rs_userid |-> rows[i].Reseller_Id, rs_name |-> name ] ]

\* map_df[creator_norm.notna()], [creator_norm.str.strip() != ''], then
\* drop_duplicates(subset=['creator_norm'], keep='first')
RECURSIVE DropDuplicatesKeepLast(_)
DropDuplicatesKeepLast(rows) ==
    IF rows = << >> THEN << >>
    ELSE LET rest == DropDuplicatesKeepLast(Tail(rows))
             r == Head(rows)
         IN  IF \E i \in 1..Len(rest) : rest[i].creator_norm = r.creator_norm
             THEN rest ELSE << r >> \o rest
RECURSIVE DropDuplicates(_)
DropDuplicates(rows) ==
    IF rows = << >> THEN << >>
    ELSE LET init == DropDuplicates(SubSeq(rows, 1, Len(rows) - 1))
             r == rows[Len(rows)]
         IN  IF \E i \in 1..Len(init) : init[i].creator_norm = r.creator_norm
             THEN init ELSE Append(init, r)
MapFrameKeepAll(maps) == Concat(maps)
MapFrame(maps) ==
    LET Keyed(r) == r.creator_norm # Null /\ Strip(r.creator_norm) # << >>
    IN  DropDuplicates(SelectSeq(Concat(maps), Keyed))

\* a row of the legacy table hspdata: its columns hold text
Hsp(creatDate, creator, usid, user) ==
    [ CreatDate |-> creatDate, Creator |-> creator, UserServiceId |-> usid,
      Username |-> user ]

\* creators "B ", "zz", none, "a", "a"; ids "1", "7", "x", "9", "6"
Hsp1 == Hsp(<< 1 >>, << 66, 32 >>, << 49 >>, << 117 >>)
Hsp2 == Hsp(<< 1 >>, << 122, 122 >>, << 55 >>, << 120 >>)
Hsp3 == Hsp(<< 1 >>, Null, << 120 >>, << 121 >>)
Hsp4 == Hsp(<< 2 >>, << 97 >>, << 57 >>, << 122 >>)
Hsp5 == Hsp(BadDate, << 97 >>, << 54 >>, << 122 >>)
\* the sixth row: creator " b", id "8"
HspTable ==
    << Hsp1, Hsp2, Hsp3, Hsp4, Hsp5, Hsp(<< 1 >>, << 32, 98 >>, << 56 >>, << 116 >>) >>

IsDigit(c) == c >= 48 /\ c <= 57
RECURSIVE ParseInt(_)
ParseInt(s) ==
    IF s = << >> THEN 0
    ELSE 10 * ParseInt(SubSeq(s, 1, Len(s) - 1)) + (s[Len(s)] - 48)

\* SAFE_CAST(x AS INT64): NULL when x is not a number
SafeCastInt(s) ==
    IF s # << >> /\ (\A i \in 1..Len(s) : IsDigit(s[i])) THEN ParseInt(s) ELSE NullInt
\* SAFE_CAST(x AS DATE): NULL when x is not a date
SafeCastDate(d) == IF IsIsoDate(d) THEN d[1] ELSE NullInt
\* LOWER(TRIM(x))
LowerTrim(s) == IF s = Null THEN Null ELSE Lower(Strip(s))

\* the CTE maria: the staged live rows on or after the cutoff
MariaCte(staged, cutoff) ==
    LET Live(r) == r.CreateDate # NullInt /\ r.CreateDate >= cutoff[1]
    IN  SelectSeq(staged, Live)

\* the CTE base_hsp: the legacy rows before the cutoff whose id no staged live row
\* has, each joined to its reseller-map entry when there is one
BaseHsp(hsp, map, staged, cutoff) ==
    LET Old(h) ==
            /\ SafeCastDate(h.CreatDate) # NullInt
            /\ SafeCastDate(h.CreatDate) < cutoff[1]
            /\ ~\E i \in 1..Len(staged) :
                   /\ SafeCastInt(h.UserServiceId) # NullInt
                   /\ staged[i].UserServiceID # NullInt
                   /\ SafeCastInt(h.UserServiceId) = staged[i].UserServiceID
        Joined(h) ==
            LET ms == { i \in 1..Len(map) : map[i].creator_norm = LowerTrim(h.Creator) }
                Row(uid, nm) ==
                    [ id |-> 0, CreateDate |-> SafeCastDate(h.CreatDate),
                      rs_userid |-> uid, rs_username |-> h.Creator, rs_name |-> nm,
                      UserServiceID |-> SafeCastInt(h.UserServiceId),
                      username |-> h.Username ]
            IN  IF ms = { } \/ h.Creator = Null THEN << Row(NullInt, Null) >>
                ELSE [ k \in 1..Cardinality(ms) |->
                         LET i == CHOOSE j \in ms :
                                    Cardinality({ l \in ms : l < j }) = k - 1
                         IN  Row(map[i].rs_userid, map[i].rs_name) ]
        old == SelectSeq(hsp, Old)
    IN  Concat([ i \in 1..Len(old) |-> Joined(old[i]) ])

\* SELECT ROW_NUMBER() OVER (...) AS id, ... FROM (maria UNION ALL base_hsp): the
\* tables the statement can create
Merged(hsp, map, staged, cutoff) ==
    { Renumber(r) :
        r \in Rankings(MariaCte(staged, cutoff) \o BaseHsp(hsp, map, staged, cutoff)) }

VARIABLES
    refData,    \* [source name -> data set]: the sources' reference tables
    cache,      \* [table -> sequence of items]: the cache store
    rpc,        \* where sync_reference_tables is
    rargs,      \* its arguments
    rqueue,     \* sources: the selected sources
    ridx,       \* index in rqueue of the source being processed
    rrows,      \* the twelve fetched (and truncated) row lists of that source
    rtab,       \* number of the next table the transaction replaces
    saved,      \* the cache when the open transaction began
    summaries,  \* the summary list built so far
    conns,      \* the source connections that are open
    rerr,       \* why the call raised: "none", "config", "fetch" or "write"
    pre,        \* the cache when the call started
    \* -- warehouse syncs (full/auto, windowed, backfill) --
    srcFacts,   \* [source name -> data set]: the sources' fact and reseller tables
    target,     \* the warehouse target table (report_user_service)
    logfile,    \* the lines the running command has appended to the log at LOG_PATH
    wcmd,       \* the command that is running: "none", "full", "window", "backfill"
    wpc,        \* where that command is
    wargs,      \* its arguments
    widx,       \* index in SourceList of the source the loop is at
    all_dfs,    \* all_dfs: the non-empty frames fetched so far
    df,         \* df: the sorted, renumbered batch
    stage,      \* the stage table of the windowed sync
    mariaStage, \* the live-rows stage table of the backfill
    mapStage,   \* the reseller-map stage table of the backfill
    all_map,    \* all_map: the reseller-map frames fetched so far
    emitted,    \* the log_sync_event calls of this run, in order
    bqjobs,     \* the warehouse jobs this run submitted, in order
    werr,       \* the error this run ends with, "none" when it does not raise
    wret,       \* the value sync_maria_to_bigquery returns
    wpre,       \* the target table when the command started
    logBudget,  \* how many log writes can still fail
    runs,       \* how many commands have run to their end
    \* -- _parse_sources and read_sync_logs --
    environ,    \* os.environ: MARIA_SOURCES and MARIA_PORT
    parsed,     \* what a call of _parse_sources did
    logtext,    \* the file at LOG_PATH as read_sync_logs finds it
    readres,    \* what a call of read_sync_logs did
    traffic,    \* the traffic columns of the Hservice row the fact query joins
    package,    \* the Package column the fact query computed for that row
    \* -- two reference syncs at once on the cache database --
    engine,     \* DATABASES['cache']['ENGINE']: "mysql" or "sqlite3"
    store,      \* [table -> sequence of row versions]: the cache database
    ov          \* [run -> where that run of sync_reference_tables is]

refVars == << refData, cache, rpc, rargs, rqueue, ridx, rrows, rtab, saved,
              summaries, conns, rerr, pre >>

whVars == << srcFacts, target, logfile, wcmd, wpc, wargs, widx, all_dfs, df, stage,
             mariaStage, mapStage, all_map, emitted, bqjobs, werr, wret, wpre, logBudget, runs >>

toolVars == << environ, parsed, logtext, readres, traffic, package, engine, store, ov >>

vars == << refVars, whVars, toolVars >>

\* no call of _parse_sources or read_sync_logs is made
NoCall == [ status |-> "none", value |-> << >> ]
\* no call of read_sync_logs is made
NoRead == [ status |-> "none", limit |-> 0, value |-> << >> ]
\* a fact row without a service: the LEFT JOIN gives NULL in every Hservice column
NoTraffic ==
    [ STrA |-> NullInt, MTrA |-> NullInt, DTrA |-> NullInt, YTrA |-> NullInt,
      ExtraTraffic |-> NullInt ]
\* no run of the two overlapping reference syncs has started
OverlapIdle ==
    /\ engine = "sqlite3"
    /\ store = [ T \in TableSet |-> << >> ]
    /\ ov = [ p \in { 1, 2 } |-> [ pc |-> "idle", tab |-> 1, rows |-> << >> ] ]
ToolIdle ==
    /\ environ = [ MARIA_SOURCES |-> << >>, MARIA_PORT |-> Null ]
    /\ parsed = NoCall
    /\ logtext = [ exists |-> FALSE, lines |-> << >> ]
    /\ readres = NoRead
    /\ traffic = NoTraffic
    /\ package = NoCall
    /\ OverlapIdle

(***************************************************************************)
(* Reference Cache Syncer: maria_cache/sync.py                             *)
(***************************************************************************)
\* the row limits a caller can pass: None, -1, 0 .. MaxLimit
Limits == { None } \cup { << n >> : n \in (0 - 1)..MaxLimit }

\* the source filters a caller can pass: None, a configured name, an unknown name
Filters == { Null, SrcA, SrcB, SrcX }

NoRows == [ t \in 1..Len(Tables) |-> << >> ]
NoArgs == [ source_name |-> Null, dry_run |-> FALSE, limit |-> None ]
EmptyCache == [ T \in TableSet |-> << >> ]

\* `if limit is not None: rows = rows[:max(limit, 0)]`
TruncateWhenSet(rows, limit) ==
    IF limit # None THEN Take(rows, IF limit[1] > 0 THEN limit[1] ELSE 0) ELSE rows
\* `if limit and limit > 0: rows = rows[:limit]`
Truncate(rows, limit) ==
    IF limit # None /\ limit[1] # 0 /\ limit[1] > 0 THEN Take(rows, limit[1]) ELSE rows

\* the rows of a table tagged with a source name, in stored order
ItemsOf(tbl, name) ==
    LET Tagged(it) == it.source_name = name IN SelectSeq(tbl, Tagged)

\* model.objects.filter(source_name=source_name).delete()
DeleteForSourceKeepAll(tbl, name) == tbl
\* model.objects.all().delete()
DeleteAll(tbl, name) == << >>
DeleteForSource(tbl, name) ==
    LET Other(it) == it.source_name # name IN SelectSeq(tbl, Other)

\* the unique constraints of the cache models: none is declared
Conflicts(t, a, b) == FALSE

\* bulk_create(items, ignore_conflicts=True): a conflicting item is skipped
RECURSIVE BulkCreate(_, _, _)
BulkCreate(t, tbl, items) ==
    IF items = << >> THEN tbl
    ELSE LET it == Head(items)
             clash == \E i \in 1..Len(tbl) : Conflicts(t, tbl[i], it)
         IN  BulkCreate(t, IF clash THEN tbl ELSE Append(tbl, it), Tail(items))

\* [builder(row) for row in rows]
Items(t, name, rows) == [ i \in 1..Len(rows) |-> Builder(t, name, rows[i]) ]

\* _replace_for_source: the table after the call
ReplaceForSource(t, tbl, name, rows, dry_run) ==
    IF dry_run THEN tbl
    ELSE LET cleared == DeleteForSource(tbl, name)
         IN  IF rows = << >> THEN cleared
             ELSE BulkCreate(t, cleared, Items(t, name, rows))

\* the dry_run parameter as the function body reads it
DryRunIgnored == FALSE
DryRun == rargs.dry_run

\* sources = [s for s in get_sources() if s.name == source_name] when a name is given
SelectSources(source_name) ==
    IF source_name # Null /\ source_name # << >>
    THEN LET Named(n) == n = source_name IN SelectSeq(SourceList, Named)
    ELSE SourceList

\* counts = {...}; summaries.append({'source', 'counts', 'dry_run'})
SummariesAfterWrite(name, rows) ==
    IF DryRun THEN summaries
    ELSE Append(summaries,
                [ source |-> name,
                  counts |-> [ T \in TableSet |->
                      Len(rows[CHOOSE t \in 1..Len(Tables) : Tables[t] = T]) ],
                  dry_run |-> DryRun ])
SummariesAfterFetch(name, rows) ==
    Append(summaries,
           [ source |-> name,
             counts |-> [ T \in TableSet |->
                 Len(rows[CHOOSE t \in 1..Len(Tables) : Tables[t] = T]) ],
             dry_run |-> DryRun ])

\* `finally: conn.close()` that closes nothing
LeftOpen(cs, name) == cs
\* `finally: conn.close()`: the connection of the source is closed
Closed(cs, name) == cs \ { name }

\* what rolling back transaction.atomic(using='cache') restores
NoRollback == cache
AtomicRollback == saved

\* the loop goes on to the next source, or the function returns summaries
RefAdvance ==
    IF ridx < Len(rqueue)
    THEN /\ ridx' = ridx + 1
         /\ rpc' = "source"
    ELSE /\ ridx' = ridx
         /\ rpc' = "returned"

\* a caller invokes sync_reference_tables(source_name, dry_run, limit, verbose);
\* verbose only adds logger.info lines, which are no part of the state
RefCall ==
    /\ rpc = "idle"
    /\ \E sn \in Filters, dr \in BOOLEAN, lim \in Limits, verbose \in BOOLEAN :
         /\ rargs' = [ source_name |-> sn, dry_run |-> dr, limit |-> lim ]
         /\ rqueue' = SelectSources(sn)
         /\ IF SelectSources(sn) = << >>
            THEN rpc' = "raised" /\ rerr' = "config"
            ELSE rpc' = "source" /\ rerr' = "none"
    /\ ridx' = 1
    /\ summaries' = << >>
    /\ pre' = cache
    /\ UNCHANGED << refData, cache, rrows, rtab, saved, conns >>
    /\ UNCHANGED << whVars, toolVars >>

\* get_conn and the twelve queries fail: the connection is closed, the error propagates
RefFetchFail ==
    /\ rpc = "source"
    /\ rpc' = "raised"
    /\ rerr' = "fetch"
    /\ UNCHANGED << refData, cache, rargs, rqueue, ridx, rrows, rtab, saved,
                    summaries, conns, pre >>
    /\ UNCHANGED << whVars, toolVars >>

\* get_conn, the twelve queries, the truncation, the counts and the dry-run branch
RefFetch ==
    /\ rpc = "source"
    /\ LET name == rqueue[ridx]
           rows == [ t \in 1..Len(Tables) |->
                       Truncate(SourceTable(refData[name], t), rargs.limit) ]
       IN  /\ summaries' = SummariesAfterFetch(name, rows)
           /\ IF DryRun
              THEN /\ RefAdvance
                   /\ UNCHANGED << rrows, rtab, saved, conns >>
              ELSE /\ rrows' = rows
                   /\ rtab' = 1
                   /\ saved' = cache
                   /\ conns' = conns \cup { name }
                   /\ rpc' = "write"
                   /\ ridx' = ridx
    /\ UNCHANGED << refData, cache, rargs, rqueue, rerr, pre >>
    /\ UNCHANGED << whVars, toolVars >>

\* one _replace_for_source call inside the transaction succeeds
RefReplace ==
    /\ rpc = "write"
    /\ LET T == Tables[rtab] IN
         cache' = [ cache EXCEPT ![T] =
                      ReplaceForSource(rtab, cache[T], rqueue[ridx], rrows[rtab], DryRun) ]
    /\ IF rtab < Len(Tables)
       THEN rtab' = rtab + 1 /\ rpc' = "write"
       ELSE rtab' = rtab /\ rpc' = "commit"
    /\ UNCHANGED << refData, rargs, rqueue, ridx, rrows, saved, summaries, conns,
                    rerr, pre >>
    /\ UNCHANGED << whVars, toolVars >>

\* one _replace_for_source call fails: in the delete, or in bulk_create after it
RefReplaceFail ==
    /\ rpc = "write"
    /\ ~DryRun
    /\ \E step \in { "delete", "insert" } :
         LET T == Tables[rtab] IN
         IF step = "delete"
         THEN cache' = cache
         ELSE /\ rrows[rtab] # << >>
              /\ cache' = [ cache EXCEPT ![T] = DeleteForSource(cache[T], rqueue[ridx]) ]
    /\ rpc' = "abort"
    /\ UNCHANGED << refData, rargs, rqueue, ridx, rrows, rtab, saved, summaries,
                    conns, rerr, pre >>
    /\ UNCHANGED << whVars, toolVars >>

\* the atomic block is left by the exception: rollback, conn.close(), the error propagates
RefRollback ==
    /\ rpc = "abort"
    /\ cache' = AtomicRollback
    /\ conns' = Closed(conns, rqueue[ridx])
    /\ rpc' = "raised"
    /\ rerr' = "write"
    /\ UNCHANGED << refData, rargs, rqueue, ridx, rrows, rtab, saved, summaries, pre >>
    /\ UNCHANGED << whVars, toolVars >>

\* the atomic block ends: commit, conn.close(), next source or return
RefCommit ==
    /\ rpc = "commit"
    /\ conns' = Closed(conns, rqueue[ridx])
    /\ RefAdvance
    /\ UNCHANGED << refData, cache, rargs, rqueue, rrows, rtab, saved, summaries,
                    rerr, pre >>
    /\ UNCHANGED << whVars, toolVars >>

\* the caller has the result (the summaries or the error); the next call can start
RefReturn ==
    /\ rpc \in { "returned", "raised" }
    /\ rpc' = "idle"
    /\ rargs' = NoArgs
    /\ rqueue' = << >>
    /\ ridx' = 1
    /\ rrows' = NoRows
    /\ rtab' = 1
    /\ saved' = EmptyCache
    /\ summaries' = << >>
    /\ rerr' = "none"
    /\ pre' = EmptyCache
    /\ UNCHANGED << refData, cache, conns >>
    /\ UNCHANGED << whVars, toolVars >>

\* between two runs the contents of the sources' reference tables change
RefChangeData ==
    /\ rpc = "idle"
    /\ \E d \in [ SourceNames -> DataSetIds ] : d # refData /\ refData' = d
    /\ UNCHANGED << cache, rpc, rargs, rqueue, ridx, rrows, rtab, saved, summaries,
                    conns, rerr, pre >>
    /\ UNCHANGED << whVars, toolVars >>

(***************************************************************************)
(* Event log: reports/sync.py log_sync_event                               *)
(***************************************************************************)
Event(type, source) == [ type |-> type, source |-> source ]

\* the events of evs whose write succeeded (oks[i] tells whether write i did)
RECURSIVE Written(_, _)
Written(evs, oks) ==
    IF evs = << >> THEN << >>
    ELSE (IF Head(oks) THEN << Head(evs) >> ELSE << >>) \o Written(Tail(evs), Tail(oks))

\* the calls of evs that are made if a failed write ended the command
RECURSIVE CallsUntilFailure(_, _)
CallsUntilFailure(evs, oks) ==
    IF evs = << >> THEN << >>
    ELSE IF ~Head(oks) THEN << Head(evs) >>
    ELSE << Head(evs) >> \o CallsUntilFailure(Tail(evs), Tail(oks))
\* the calls of evs that are made: `except Exception` in log_sync_event swallows a
\* failed write, the call returns and the statement after it runs
Calls(evs, oks) == evs

\* open(LOG_PATH, 'w'): the file is truncated, then written
Overwrite(file, lines) == lines
\* open(LOG_PATH, 'a') and handle.write(line): the lines go to the end of the file
AppendLines(file, lines) == file \o lines

\* log_sync_event called for the first event of evs only
LogFirstOnly(evs) ==
    /\ logBudget' = logBudget
    /\ emitted' = Append(emitted, Head(evs))
    /\ logfile' = AppendLines(logfile, << Head(evs) >>)

\* log_sync_event called for each event of evs in turn: _write_sync_log appends one
\* line, or fails, and the failure is swallowed
LogEvents(evs) ==
    \E oks \in [ 1..Len(evs) -> BOOLEAN ] :
        LET failed == Cardinality({ i \in 1..Len(evs) : ~oks[i] }) IN
        /\ failed <= logBudget
        /\ logBudget' = logBudget - failed
        /\ emitted' = emitted \o Calls(evs, oks)
        /\ logfile' = AppendLines(logfile, Written(evs, oks))

NoLog == UNCHANGED << logfile, emitted, logBudget >>

\* the RuntimeError of a command's first checks (_get_bq_config, date.fromisoformat),
\* raised before the command's first log_sync_event
RejectedAfterStartEvent(err) ==
    /\ wpc' = "raised"
    /\ werr' = err
    /\ LogEvents(<< [ type |-> "sync_start", source |-> Null ] >>)
Rejected(err) ==
    /\ wpc' = "raised"
    /\ werr' = err
    /\ NoLog

(***************************************************************************)
(* Warehouse commands: shared steps                                        *)
(***************************************************************************)
WhLimits == { << n >> : n \in 0..MaxLimit }
\* the date arguments tried: the days before today, and a malformed date
DateArgs == { << d >> : d \in 1..(Today - 1) } \cup { BadDate }
NoWhArgs == [ limit |-> << 0 >>, days |-> None, disp |-> "WRITE_TRUNCATE",
              start |-> None, end |-> None ]

\* the loop over the sources goes on, or is over
LoopAdvance ==
    IF widx < Len(SourceList)
    THEN widx' = widx + 1 /\ wpc' = "fetch"
    ELSE widx' = widx /\ wpc' = "prepare"

\* `if not all_dfs:` after the loop
LoopDoneIgnoringEmpty(dfs) == "batch"
LoopDone(dfs) == IF dfs = << >> THEN "no_data" ELSE "batch"

\* pd.concat, sort_values, reset_index and the new id column
Batch(dfs) == Renumber(SortValues(Concat(dfs)))

\* where a failed source fetch leads: the except clause of the loop logs and goes on
\* (full/auto and windowed sync); the backfill has no except clause
FetchErrorAborts(cmd) == TRUE
FetchErrorIsFatal(cmd) == cmd = "backfill"

\* client.delete_table(table, not_found_ok=True) in the finally clause
KeptOnError(tbl) == IF werr = "none" THEN Absent ELSE tbl
AfterFinally(tbl) == Absent

\* _fetch_maria_rows raised for the source the loop is at; evs are the events the
\* command logs when it catches the error
SourceError(evs) ==
    /\ IF FetchErrorIsFatal(wcmd)
       THEN /\ werr' = "fetch"
            /\ wpc' = IF wcmd = "backfill" THEN "cleanup" ELSE "raised"
            /\ widx' = widx
            /\ NoLog
       ELSE /\ LogEvents(evs)
            /\ LoopAdvance
            /\ werr' = werr

(***************************************************************************)
(* Full/auto warehouse sync: reports/sync.py sync_maria_to_bigquery        *)
(***************************************************************************)
\* the call, the BigQuery configuration check, _parse_sources, the sync_start event
FullStart ==
    /\ wpc = "idle"
    /\ runs < MaxRuns
    /\ \E lim \in WhLimits, days \in { None, << 1 >> },
          disp \in { "WRITE_TRUNCATE", "WRITE_APPEND" }, configured \in BOOLEAN :
         /\ wargs' = [ NoWhArgs EXCEPT !.limit = lim, !.days = days, !.disp = disp ]
         /\ IF configured
            THEN /\ wpc' = "fetch"
                 /\ werr' = "none"
                 /\ LogEvents(<< Event("sync_start", Null) >>)
            ELSE Rejected("config")
    /\ wcmd' = "full"
    /\ widx' = 1
    /\ wpre' = target
    /\ UNCHANGED << srcFacts, target, all_dfs, df, stage, mariaStage, mapStage,
                    all_map, bqjobs, wret >>
    /\ UNCHANGED << refVars, toolVars, runs >>

\* one turn of the loop: source_start, _fetch_maria_rows, source_success
FullFetch ==
    /\ wcmd = "full"
    /\ wpc = "fetch"
    /\ LET name == SourceList[widx]
           rows == FetchMariaRows(name, srcFacts[name], wargs.limit, wargs.days,
                                  None, None)
       IN  /\ LogEvents(<< Event("source_start", name), Event("source_success", name) >>)
           /\ all_dfs' = IF rows # << >> THEN Append(all_dfs, rows) ELSE all_dfs
    /\ LoopAdvance
    /\ UNCHANGED << srcFacts, target, wcmd, wargs, df, stage, mariaStage, mapStage,
                    all_map, bqjobs, werr, wret, wpre >>
    /\ UNCHANGED << refVars, toolVars, runs >>

\* one turn of the loop in which _fetch_maria_rows raises: source_start, source_error
FullFetchFail ==
    /\ wcmd = "full"
    /\ wpc = "fetch"
    /\ SourceError(<< Event("source_start", SourceList[widx]),
                      Event("source_error", SourceList[widx]) >>)
    /\ UNCHANGED << srcFacts, target, wcmd, wargs, all_dfs, df, stage, mariaStage,
                    mapStage, all_map, bqjobs, wret, wpre >>
    /\ UNCHANGED << refVars, toolVars, runs >>

\* after the loop: nothing fetched (sync_no_data, return 0), or the batch is built
FullPrepare ==
    /\ wcmd = "full"
    /\ wpc = "prepare"
    /\ IF LoopDone(all_dfs) = "no_data"
       THEN /\ LogEvents(<< Event("sync_no_data", Null) >>)
            /\ wret' = 0
            /\ wpc' = "returned"
            /\ df' = df
       ELSE /\ df' = Batch(all_dfs)
            /\ wpc' = "load"
            /\ wret' = wret
            /\ NoLog
    /\ UNCHANGED << srcFacts, target, wcmd, wargs, widx, all_dfs, stage, mariaStage,
                    mapStage, all_map, bqjobs, werr, wpre >>
    /\ UNCHANGED << refVars, toolVars, runs >>

\* the CSV load job into the target completes: sync_loaded, return len(df)
FullLoad ==
    /\ wcmd = "full"
    /\ wpc = "load"
    /\ bqjobs' = Append(bqjobs, "load_target")
    /\ target' = IF wargs.disp = "WRITE_TRUNCATE" THEN CsvLoad(df)
                 ELSE target \o CsvLoad(df)
    /\ LogEvents(<< Event("sync_loaded", Null) >>)
    /\ wret' = Len(df)
    /\ wpc' = "returned"
    /\ UNCHANGED << srcFacts, wcmd, wargs, widx, all_dfs, df, stage, mariaStage,
                    mapStage, all_map, werr, wpre >>
    /\ UNCHANGED << refVars, toolVars, runs >>

\* the load job fails: sync_error, the error propagates
FullLoadFail ==
    /\ wcmd = "full"
    /\ wpc = "load"
    /\ bqjobs' = Append(bqjobs, "load_target")
    /\ LogEvents(<< Event("sync_error", Null) >>)
    /\ werr' = "load"
    /\ wpc' = "raised"
    /\ UNCHANGED << srcFacts, target, wcmd, wargs, widx, all_dfs, df, stage, mariaStage,
                    mapStage, all_map, wret, wpre >>
    /\ UNCHANGED << refVars, toolVars, runs >>

(***************************************************************************)
(* Windowed sync: commands/sync_report_user_service_since.py               *)
(***************************************************************************)
\* handle: configuration check, date validation, _parse_sources, window_sync_start
WinStart ==
    /\ wpc = "idle"
    /\ runs < MaxRuns
    /\ \E start \in DateArgs, end \in DateArgs \cup { None }, lim \in WhLimits,
          configured \in BOOLEAN :
         /\ wargs' = [ NoWhArgs EXCEPT !.limit = lim, !.start = start, !.end = end ]
         /\ IF ~configured
            THEN Rejected("config")
            ELSE IF ~IsIsoDate(start) \/ (end # None /\ ~IsIsoDate(end))
            THEN Rejected("validation")
            ELSE /\ wpc' = "fetch"
                 /\ werr' = "none"
                 /\ LogEvents(<< Event("window_sync_start", Null) >>)
    /\ wcmd' = "window"
    /\ widx' = 1
    /\ wpre' = target
    /\ UNCHANGED << srcFacts, target, all_dfs, df, stage, mariaStage, mapStage,
                    all_map, bqjobs, wret >>
    /\ UNCHANGED << refVars, toolVars, runs >>

\* one turn of the loop: _fetch_maria_rows, window_source_success
WinFetch ==
    /\ wcmd = "window"
    /\ wpc = "fetch"
    /\ LET name == SourceList[widx]
           rows == FetchMariaRows(name, srcFacts[name], wargs.limit, None,
                                  wargs.start, wargs.end)
       IN  /\ all_dfs' = IF rows # << >> THEN Append(all_dfs, rows) ELSE all_dfs
           /\ LogEvents(<< Event("window_source_success", name) >>)
    /\ LoopAdvance
    /\ UNCHANGED << srcFacts, target, wcmd, wargs, df, stage, mariaStage, mapStage,
                    all_map, bqjobs, werr, wret, wpre >>
    /\ UNCHANGED << refVars, toolVars, runs >>

\* one turn of the loop in which _fetch_maria_rows raises: window_source_error
WinFetchFail ==
    /\ wcmd = "window"
    /\ wpc = "fetch"
    /\ SourceError(<< Event("window_source_error", SourceList[widx]) >>)
    /\ UNCHANGED << srcFacts, target, wcmd, wargs, all_dfs, df, stage, mariaStage,
                    mapStage, all_map, bqjobs, wret, wpre >>
    /\ UNCHANGED << refVars, toolVars, runs >>

\* after the loop: nothing fetched (window_sync_no_data, return), or the batch is
\* built and the stage table named (window_stage_create)
WinPrepare ==
    /\ wcmd = "window"
    /\ wpc = "prepare"
    /\ IF LoopDone(all_dfs) = "no_data"
       THEN /\ LogEvents(<< Event("window_sync_no_data", Null) >>)
            /\ wpc' = "returned"
            /\ df' = df
       ELSE /\ df' = Batch(all_dfs)
            /\ LogEvents(<< Event("window_stage_create", Null) >>)
            /\ wpc' = "stage"
    /\ UNCHANGED << srcFacts, target, wcmd, wargs, widx, all_dfs, stage, mariaStage,
                    mapStage, all_map, bqjobs, werr, wret, wpre >>
    /\ UNCHANGED << refVars, toolVars, runs >>

\* _load_df_to_bq(df, stage_table): the load job creates the stage table
WinStageLoad ==
    /\ wcmd = "window"
    /\ wpc = "stage"
    /\ bqjobs' = Append(bqjobs, "load_stage")
    /\ stage' = Table(CsvLoad(df))
    /\ wpc' = "delete"
    /\ UNCHANGED << srcFacts, target, logfile, wcmd, wargs, widx, all_dfs, df,
                    mariaStage, mapStage, all_map, emitted, werr, wret, wpre, logBudget >>
    /\ UNCHANGED << refVars, toolVars, runs >>

\* the load job fails: no stage table, the error propagates through the finally
WinStageLoadFail ==
    /\ wcmd = "window"
    /\ wpc = "stage"
    /\ bqjobs' = Append(bqjobs, "load_stage")
    /\ werr' = "stage_load"
    /\ wpc' = "cleanup"
    /\ UNCHANGED << srcFacts, target, logfile, wcmd, wargs, widx, all_dfs, df, stage,
                    mariaStage, mapStage, all_map, emitted, wret, wpre, logBudget >>
    /\ UNCHANGED << refVars, toolVars, runs >>

\* the script BEGIN ... END is submitted; its first statement, the DELETE, runs
WinSwapDelete ==
    /\ wcmd = "window"
    /\ wpc = "delete"
    /\ bqjobs' = Append(bqjobs, "swap_script")
    /\ LET Kept(row) == ~DeleteWhere(row, wargs.start, wargs.end)
       IN  target' = SelectSeq(target, Kept)
    /\ wpc' = "insert"
    /\ UNCHANGED << srcFacts, logfile, wcmd, wargs, widx, all_dfs, df, stage,
                    mariaStage, mapStage, all_map, emitted, werr, wret, wpre, logBudget >>
    /\ UNCHANGED << refVars, toolVars, runs >>

\* the script fails in its DELETE: nothing is deleted
WinSwapDeleteFail ==
    /\ wcmd = "window"
    /\ wpc = "delete"
    /\ bqjobs' = Append(bqjobs, "swap_script")
    /\ werr' = "swap"
    /\ wpc' = "cleanup"
    /\ UNCHANGED << srcFacts, target, logfile, wcmd, wargs, widx, all_dfs, df, stage,
                    mariaStage, mapStage, all_map, emitted, wret, wpre, logBudget >>
    /\ UNCHANGED << refVars, toolVars, runs >>

\* the script's second statement, the INSERT ... SELECT from the stage table, runs:
\* window_sync_success
WinSwapInsert ==
    /\ wcmd = "window"
    /\ wpc = "insert"
    /\ target' = target \o stage.rows
    /\ LogEvents(<< Event("window_sync_success", Null) >>)
    /\ wpc' = "cleanup"
    /\ UNCHANGED << srcFacts, wcmd, wargs, widx, all_dfs, df, stage, mariaStage,
                    mapStage, all_map, bqjobs, werr, wret, wpre >>
    /\ UNCHANGED << refVars, toolVars, runs >>

\* the script fails in its INSERT: the statements of a BEGIN ... END block are not a
\* transaction, the DELETE that completed stays
WinSwapInsertFail ==
    /\ wcmd = "window"
    /\ wpc = "insert"
    /\ werr' = "swap"
    /\ wpc' = "cleanup"
    /\ UNCHANGED << srcFacts, target, logfile, wcmd, wargs, widx, all_dfs, df, stage,
                    mariaStage, mapStage, all_map, emitted, bqjobs, wret, wpre, logBudget >>
    /\ UNCHANGED << refVars, toolVars, runs >>

(***************************************************************************)
(* Backfill: commands/backfill_report_user_service.py                      *)
(***************************************************************************)
\* handle: configuration check, cutoff validation, _parse_sources, backfill_start
BfStart ==
    /\ wpc = "idle"
    /\ runs < MaxRuns
    /\ \E cutoff \in DateArgs, configured \in BOOLEAN :
         /\ wargs' = [ NoWhArgs EXCEPT !.start = cutoff ]
         /\ IF ~configured
            THEN Rejected("config")
            ELSE IF ~IsIsoDate(cutoff)
            THEN Rejected("validation")
            ELSE /\ wpc' = "fetch"
                 /\ werr' = "none"
                 /\ LogEvents(<< Event("backfill_start", Null) >>)
    /\ wcmd' = "backfill"
    /\ widx' = 1
    /\ wpre' = target
    /\ UNCHANGED << srcFacts, target, all_dfs, df, stage, mariaStage, mapStage,
                    all_map, bqjobs, wret >>
    /\ UNCHANGED << refVars, toolVars, runs >>

\* the live rows of the source the loop is at, and the stage table once they are
\* loaded: WRITE_TRUNCATE while maria_loaded is False, WRITE_APPEND after
BfLiveRows ==
    FetchMariaRows(SourceList[widx], srcFacts[SourceList[widx]], None, None,
                   wargs.start, None)
BfStagedTruncate ==
    IF BfLiveRows = << >> THEN mariaStage ELSE Table(CsvLoad(BfLiveRows))
BfStaged ==
    IF BfLiveRows = << >> THEN mariaStage
    ELSE IF ~mariaStage.exists THEN Table(CsvLoad(BfLiveRows))
    ELSE Table(mariaStage.rows \o CsvLoad(BfLiveRows))
BfStageJobs == IF BfLiveRows = << >> THEN bqjobs ELSE Append(bqjobs, "load_maria_stage")

\* one turn of the loop: _fetch_maria_rows, the load into maria_stage,
\* _fetch_reseller_map
BfFetch ==
    /\ wcmd = "backfill"
    /\ wpc = "fetch"
    /\ mariaStage' = BfStaged
    /\ bqjobs' = BfStageJobs
    /\ LET map == FetchResellerMap(SourceList[widx], srcFacts[SourceList[widx]])
       IN  all_map' = IF map # << >> THEN Append(all_map, map) ELSE all_map
    /\ LoopAdvance
    /\ UNCHANGED << srcFacts, target, logfile, wcmd, wargs, all_dfs, df, stage, mapStage,
                    emitted, werr, wret, wpre, logBudget >>
    /\ UNCHANGED << refVars, toolVars, runs >>

\* one turn of the loop in which _fetch_maria_rows raises: there is no except clause
BfFetchFail ==
    /\ wcmd = "backfill"
    /\ wpc = "fetch"
    /\ SourceError(<< >>)
    /\ UNCHANGED << srcFacts, target, wcmd, wargs, all_dfs, df, stage, mariaStage,
                    mapStage, all_map, bqjobs, wret, wpre >>
    /\ UNCHANGED << refVars, toolVars, runs >>

\* one turn of the loop in which the load into maria_stage fails
BfStageLoadFail ==
    /\ wcmd = "backfill"
    /\ wpc = "fetch"
    /\ BfLiveRows # << >>
    /\ bqjobs' = BfStageJobs
    /\ werr' = "stage_load"
    /\ wpc' = "cleanup"
    /\ UNCHANGED << srcFacts, target, logfile, wcmd, wargs, widx, all_dfs, df, stage,
                    mariaStage, mapStage, all_map, emitted, wret, wpre, logBudget >>
    /\ UNCHANGED << refVars, toolVars, runs >>

\* one turn of the loop in which _fetch_reseller_map raises, after the live rows of
\* the source were staged
BfMapFetchFail ==
    /\ wcmd = "backfill"
    /\ wpc = "fetch"
    /\ mariaStage' = BfStaged
    /\ bqjobs' = BfStageJobs
    /\ werr' = "fetch"
    /\ wpc' = "cleanup"
    /\ UNCHANGED << srcFacts, target, logfile, wcmd, wargs, widx, all_dfs, df, stage,
                    mapStage, all_map, emitted, wret, wpre, logBudget >>
    /\ UNCHANGED << refVars, toolVars, runs >>

\* maria_loaded taken to be True without a look at the loads
MariaLoadedAlways == TRUE
\* maria_loaded: a source returned live rows and they were loaded into maria_stage
MariaLoaded == mariaStage.exists

\* after the loop: `if not maria_loaded: raise`; else the reseller map is
\* deduplicated and loaded into map_stage, or an empty map_stage is created
BfPrepare ==
    /\ wcmd = "backfill"
    /\ wpc = "prepare"
    /\ IF ~MariaLoaded
       THEN /\ werr' = "no_rows"
            /\ wpc' = "cleanup"
            /\ UNCHANGED << mapStage, bqjobs >>
       ELSE /\ mapStage' = Table(MapFrame(all_map))
            /\ bqjobs' = IF MapFrame(all_map) # << >>
                         THEN Append(bqjobs, "load_map_stage") ELSE bqjobs
            /\ wpc' = "query"
            /\ werr' = werr
    /\ UNCHANGED << srcFacts, target, logfile, wcmd, wargs, widx, all_dfs, df, stage,
                    mariaStage, all_map, emitted, wret, wpre, logBudget >>
    /\ UNCHANGED << refVars, toolVars, runs >>

\* the load into map_stage, or create_table, fails
BfMapStageFail ==
    /\ wcmd = "backfill"
    /\ wpc = "prepare"
    /\ MariaLoaded
    /\ bqjobs' = IF MapFrame(all_map) # << >>
                 THEN Append(bqjobs, "load_map_stage") ELSE bqjobs
    /\ werr' = "stage_load"
    /\ wpc' = "cleanup"
    /\ UNCHANGED << srcFacts, target, logfile, wcmd, wargs, widx, all_dfs, df, stage,
                    mariaStage, mapStage, all_map, emitted, wret, wpre, logBudget >>
    /\ UNCHANGED << refVars, toolVars, runs >>

\* CREATE OR REPLACE TABLE target AS ... completes: backfill_success
BfQuery ==
    /\ wcmd = "backfill"
    /\ wpc = "query"
    /\ bqjobs' = Append(bqjobs, "create_or_replace")
    /\ target' \in Merged(HspTable, mapStage.rows, mariaStage.rows, wargs.start)
    /\ LogEvents(<< Event("backfill_success", Null) >>)
    /\ wpc' = "cleanup"
    /\ UNCHANGED << srcFacts, wcmd, wargs, widx, all_dfs, df, stage, mariaStage,
                    mapStage, all_map, werr, wret, wpre >>
    /\ UNCHANGED << refVars, toolVars, runs >>

\* the statement fails: the target is not replaced
BfQueryFail ==
    /\ wcmd = "backfill"
    /\ wpc = "query"
    /\ bqjobs' = Append(bqjobs, "create_or_replace")
    /\ werr' = "query"
    /\ wpc' = "cleanup"
    /\ UNCHANGED << srcFacts, target, logfile, wcmd, wargs, widx, all_dfs, df, stage,
                    mariaStage, mapStage, all_map, emitted, wret, wpre, logBudget >>
    /\ UNCHANGED << refVars, toolVars, runs >>

(***************************************************************************)
(* Steps shared by the commands                                            *)
(***************************************************************************)
\* the finally clause of the windowed sync and of the backfill: the stage tables are
\* deleted, then the command returns or the pending error propagates
Cleanup ==
    /\ wpc = "cleanup"
    /\ stage' = AfterFinally(stage)
    /\ mariaStage' = AfterFinally(mariaStage)
    /\ mapStage' = AfterFinally(mapStage)
    /\ wpc' = IF werr = "none" THEN "returned" ELSE "raised"
    /\ UNCHANGED << srcFacts, target, logfile, wcmd, wargs, widx, all_dfs, df, all_map,
                    emitted, bqjobs, werr, wret, wpre, logBudget >>
    /\ UNCHANGED << refVars, toolVars, runs >>

\* the command's process ends; the lines a later command appends to the log come
\* after the lines that are there, which it leaves as they are
WhExit ==
    /\ wpc \in { "returned", "raised" }
    /\ wpc' = "idle"
    /\ wcmd' = "none"
    /\ wargs' = NoWhArgs
    /\ widx' = 1
    /\ all_dfs' = << >>
    /\ df' = << >>
    /\ all_map' = << >>
    /\ emitted' = << >>
    /\ bqjobs' = << >>
    /\ werr' = "none"
    /\ wret' = 0
    /\ wpre' = << >>
    /\ logfile' = << >>
    /\ runs' = runs + 1
    /\ UNCHANGED << srcFacts, target, stage, mariaStage, mapStage, logBudget >>
    /\ UNCHANGED << refVars, toolVars >>

\* between two commands the contents of the sources' tables change
WhChangeData ==
    /\ wpc = "idle"
    /\ \E d \in FactSets : d # srcFacts /\ srcFacts' = d
    /\ UNCHANGED << target, logfile, wcmd, wpc, wargs, widx, all_dfs, df, stage,
                    mariaStage, mapStage, all_map, emitted, bqjobs, werr, wret, wpre,
                    logBudget >>
    /\ UNCHANGED << refVars, toolVars, runs >>

WhIdle ==
    /\ target = << >>
    /\ logfile = << >>
    /\ wcmd = "none"
    /\ wpc = "idle"
    /\ wargs = NoWhArgs
    /\ widx = 1
    /\ all_dfs = << >>
    /\ df = << >>
    /\ stage = Absent
    /\ mariaStage = Absent
    /\ mapStage = Absent
    /\ all_map = << >>
    /\ emitted = << >>
    /\ bqjobs = << >>
    /\ werr = "none"
    /\ wret = 0
    /\ wpre = << >>
    /\ logBudget = 0
    /\ runs = 0

RefIdle ==
    /\ cache = EmptyCache
    /\ rpc = "idle"
    /\ rargs = NoArgs
    /\ rqueue = << >>
    /\ ridx = 1
    /\ rrows = NoRows
    /\ rtab = 1
    /\ saved = EmptyCache
    /\ summaries = << >>
    /\ conns = { }
    /\ rerr = "none"
    /\ pre = EmptyCache

WhInit ==
    /\ srcFacts \in FactSets
    /\ WhIdle
    /\ refData = [ n \in SourceNames |-> 0 ]
    /\ RefIdle
    /\ ToolIdle

WhNext ==
    \/ FullStart
    \/ FullFetch
    \/ FullFetchFail
    \/ FullPrepare
    \/ FullLoad
    \/ FullLoadFail
    \/ WinStart
    \/ WinFetch
    \/ WinFetchFail
    \/ WinPrepare
    \/ WinStageLoad
    \/ WinStageLoadFail
    \/ WinSwapDelete
    \/ WinSwapDeleteFail
    \/ WinSwapInsert
    \/ WinSwapInsertFail
    \/ BfStart
    \/ BfFetch
    \/ BfFetchFail
    \/ BfStageLoadFail
    \/ BfMapFetchFail
    \/ BfPrepare
    \/ BfMapStageFail
    \/ BfQuery
    \/ BfQueryFail
    \/ Cleanup
    \/ WhExit
    \/ WhChangeData

SpecWh == WhInit /\ [][WhNext]_vars

RefInit ==
    /\ refData \in [ SourceNames -> DataSetIds ]
    /\ RefIdle
    /\ srcFacts = [ n \in SourceNames |-> 0 ]
    /\ WhIdle
    /\ ToolIdle

RefNext ==
    \/ RefCall
    \/ RefFetchFail
    \/ RefFetch
    \/ RefReplace
    \/ RefReplaceFail
    \/ RefRollback
    \/ RefCommit
    \/ RefReturn
    \/ RefChangeData

SpecRef == RefInit /\ [][RefNext]_vars

(***************************************************************************)
(* Claims on the reference cache sync                                      *)
(***************************************************************************)
TableNo(T) == CHOOSE t \in 1..Len(Tables) : Tables[t] = T

\* the items a source's full query result builds, and those of its first rows
FetchedItems(T, name) ==
    Items(TableNo(T), name, SourceTable(refData[name], TableNo(T)))
KeptItems(T, name) ==
    Items(TableNo(T), name,
          Truncate(SourceTable(refData[name], TableNo(T)), rargs.limit))

RefSucceeded == rpc = "returned" /\ ~rargs.dry_run

\* C1 as stated: after a successful non-dry-run sync of S, the stored rows of every
\* entity type tagged S are exactly the rows the source returned for it in that run
\* (set equality on content).
C1_StoredEqualsFetched ==
    RefSucceeded =>
        \A i \in 1..Len(rqueue) : \A T \in TableSet :
            Range(ItemsOf(cache[T], rqueue[i])) = Range(FetchedItems(T, rqueue[i]))

\* C1 amended: after a successful non-dry-run sync of S, the stored rows of every
\* entity type tagged S are exactly the rows the run kept of the source's result: all
\* of them, or the first N when a row limit N > 0 was given; each kept row is stored
\* once, whatever was stored for S before, so a second run with the same data and
\* limit leaves the rows unchanged.
C1_StoredEqualsKept ==
    RefSucceeded =>
        \A i \in 1..Len(rqueue) : \A T \in TableSet :
            ItemsOf(cache[T], rqueue[i]) = KeptItems(T, rqueue[i])

\* a successful write run replaced rows that were stored for a source by other rows
C1_Witness ==
    /\ RefSucceeded
    /\ \E T \in TableSet :
         /\ ItemsOf(pre[T], SrcA) # << >>
         /\ ItemsOf(cache[T], SrcA) # << >>
         /\ ItemsOf(cache[T], SrcA) # ItemsOf(pre[T], SrcA)

\* C2: when the replacement of one entity type fails in a non-dry-run sync of S, the
\* stored rows tagged S of all twelve entity types are what they were before the run.
C2_FailedWriteRestoresSource ==
    (rpc = "raised" /\ rerr = "write") =>
        \A T \in TableSet :
            ItemsOf(cache[T], rqueue[ridx]) = ItemsOf(pre[T], rqueue[ridx])

\* the write failed after earlier tables of the source had been replaced by other rows
C2_Witness ==
    /\ rpc = "raised"
    /\ rerr = "write"
    /\ rtab > 1
    /\ \E t \in 1..(rtab - 1) :
         ItemsOf(pre[Tables[t]], rqueue[ridx]) # Items(t, rqueue[ridx], rrows[t])

\* C3: a dry-run call never changes the cache, whatever the filter and the limit.
C3_DryRunLeavesCache ==
    (rpc # "idle" /\ rargs.dry_run) => cache = pre

\* a dry run returned although a write run would have changed the stored rows
C3_Witness ==
    /\ rpc = "returned"
    /\ rargs.dry_run
    /\ \E i \in 1..Len(rqueue) : \E T \in TableSet :
         ItemsOf(cache[T], rqueue[i]) # KeptItems(T, rqueue[i])

\* the summary list a run over the selected sources returns for the current data
ExpectedSummaries ==
    [ i \in 1..Len(rqueue) |->
        [ source |-> rqueue[i],
          counts |-> [ T \in TableSet |-> Len(KeptItems(T, rqueue[i])) ],
          dry_run |-> rargs.dry_run ] ]

\* C4: the summaries a call returns are determined by the source data, the filter and
\* the limit alone: per source and table the count of kept rows, the same in a dry run
\* as in a write run, which differ in the dry_run flag only.
C4_SummariesSameInBothModes ==
    rpc = "returned" => summaries = ExpectedSummaries

\* a dry run returned the counts of two sources, a row limit having cut a table
C4_Witness ==
    /\ rpc = "returned"
    /\ rargs.dry_run
    /\ Len(summaries) = 2
    /\ \E T \in TableSet :
         /\ summaries[1].counts[T] > 0
         /\ summaries[1].counts[T] < Len(FetchedItems(T, rqueue[1]))

(***************************************************************************)
(* Claims on the warehouse syncs                                           *)
(***************************************************************************)
\* the window [A, B] of the running windowed sync, B open when no end date is given
InWindow(row) ==
    /\ row.CreateDate # NullInt
    /\ row.CreateDate >= wargs.start[1]
    /\ wargs.end # None => row.CreateDate <= wargs.end[1]
OutOfWindow(row) == ~InWindow(row)

Submitted(job) == \E i \in 1..Len(bqjobs) : bqjobs[i] = job
Logged(type) == \E i \in 1..Len(emitted) : emitted[i].type = type

WinSucceeded == wcmd = "window" /\ wpc = "returned" /\ Logged("window_sync_success")

\* C5: after a successful windowed sync with window [A, B] the target rows inside the
\* window are the rows staged by this run, and the target rows outside the window are
\* the rows that were there before the run.
C5_WindowReplaced ==
    WinSucceeded =>
        /\ SelectSeq(target, InWindow) = CsvLoad(df)
        /\ SelectSeq(target, OutOfWindow) = SelectSeq(wpre, OutOfWindow)

\* a closed window held a row that the run replaced, next to rows on either side of
\* the window or after it that the run kept
C5_Witness ==
    /\ WinSucceeded
    /\ wargs.end # None
    /\ \E i \in 1..Len(wpre) :
         /\ InWindow(wpre[i])
         /\ \A j \in 1..Len(target) : target[j] # wpre[i]
    /\ \E i \in 1..Len(wpre) :
         /\ wpre[i].CreateDate > wargs.end[1]
         /\ \E j \in 1..Len(target) : target[j] = wpre[i]

\* the target after the swap of the running windowed sync
Swapped == SelectSeq(wpre, OutOfWindow) \o CsvLoad(df)

\* C6 as stated: in the windowed sync the deletion of the window's rows and the
\* insertion of the staged rows are one atomic step; the target is never, and is not
\* left, with the window's rows deleted and the staged rows not inserted.
C6_SwapIsAtomic ==
    wcmd = "window" => (target = wpre \/ target = Swapped)

SuccessTypes == { "source_success", "window_source_success" }
ErrorTypes == { "source_error", "window_source_error" }
IsOutcome(e) == e.type \in SuccessTypes \cup ErrorTypes
\* the per-source outcomes the running command has logged, in order
Outcomes == SelectSeq(emitted, IsOutcome)
SourceFailed(name) ==
    \E i \in 1..Len(emitted) : emitted[i].source = name /\ emitted[i].type \in ErrorTypes

\* what the fetch of a source returns to the running command
FetchResult(name) ==
    FetchMariaRows(name, srcFacts[name], wargs.limit, wargs.days, wargs.start, wargs.end)

\* the non-empty results of the first k sources whose fetch did not fail
RECURSIVE GoodFrames(_)
GoodFrames(k) ==
    IF k = 0 THEN << >>
    ELSE IF ~SourceFailed(SourceList[k]) /\ FetchResult(SourceList[k]) # << >>
         THEN Append(GoodFrames(k - 1), FetchResult(SourceList[k]))
         ELSE GoodFrames(k - 1)

InSync == wcmd \in { "full", "window" } /\ werr \notin { "config", "validation" }
LoopOver == InSync /\ wpc # "fetch"

\* C7: in the windowed and the full/auto sync a failed fetch is logged as a
\* source-error event and never ends the run: every source gets its turn, in
\* configuration order, and the rows of the sources whose fetch succeeded are the
\* batch that is staged and written to the target.
C7_FetchFailureIsSkipped ==
    /\ InSync =>
         /\ werr # "fetch"
         /\ Len(Outcomes) = IF wpc = "fetch" THEN widx - 1 ELSE Len(SourceList)
         /\ \A i \in 1..Len(Outcomes) : Outcomes[i].source = SourceList[i]
    /\ LoopOver => all_dfs = GoodFrames(Len(SourceList))
    /\ (LoopOver /\ wpc \notin { "prepare", "returned", "raised" }) =>
         df = Batch(GoodFrames(Len(SourceList)))
    /\ (wcmd = "full" /\ wpc = "returned" /\ Logged("sync_loaded")) =>
         target = (IF wargs.disp = "WRITE_TRUNCATE" THEN << >> ELSE wpre)
                      \o CsvLoad(Batch(GoodFrames(Len(SourceList))))
    /\ WinSucceeded =>
         SelectSeq(target, InWindow) = CsvLoad(Batch(GoodFrames(Len(SourceList))))

\* a windowed sync whose first source failed wrote the rows of the second source
C7_Witness ==
    /\ WinSucceeded
    /\ SourceFailed(SrcA)
    /\ ~SourceFailed(SrcB)
    /\ Outcomes[2] = Event("window_source_success", SrcB)
    /\ \E i \in 1..Len(target) : InWindow(target[i]) /\ target[i].rs_name = SrcB

\* every source failed or returned no row
AllEmpty == \A name \in SourceNames : SourceFailed(name) \/ FetchResult(name) = << >>

\* C8: when every source fails or returns no row, the windowed and the full/auto sync
\* end without an error, the last event is the no-data event, no job was submitted,
\* no stage table exists, the target is as it was and the full/auto sync returns 0.
C8_NoDataIsNoOp ==
    (LoopOver /\ wpc # "prepare" /\ AllEmpty) =>
        /\ wpc = "returned"
        /\ werr = "none"
        /\ emitted[Len(emitted)].type \in { "sync_no_data", "window_sync_no_data" }
        /\ bqjobs = << >>
        /\ stage = Absent
        /\ target = wpre
        /\ wcmd = "full" => wret = 0

\* a full sync over a populated target returned 0: one source failed, the other had
\* no row
C8_Witness ==
    /\ wcmd = "full"
    /\ wpc = "returned"
    /\ AllEmpty
    /\ SourceFailed(SrcA)
    /\ ~SourceFailed(SrcB)
    /\ target # << >>

\* C9: when a windowed sync or a backfill ends, returning or raising, none of the
\* stage tables exists: the stage table of the windowed sync, the live-rows stage
\* table and the reseller-map stage table of the backfill.
C9_StageTablesRemoved ==
    (wcmd \in { "window", "backfill" } /\ wpc \in { "returned", "raised" }) =>
        /\ stage = Absent
        /\ mariaStage = Absent
        /\ mapStage = Absent

\* a backfill raised because its final statement failed, both stage tables loaded
C9_Witness ==
    /\ wcmd = "backfill"
    /\ wpc = "raised"
    /\ werr = "query"
    /\ Submitted("load_maria_stage")
    /\ Submitted("load_map_stage")
    /\ mariaStage = Absent
    /\ mapStage = Absent

\* order of two rows by (name, UserServiceID ascending, CreateDate descending), the
\* name being the column the form names; negative when a comes first
OrderBy(aName, bName, a, b, nullsFirst) ==
    LET c1 == CmpKey(aName = Null, bName = Null, CmpStr(aName, bName), FALSE, nullsFirst)
        c2 == CmpKey(a.UserServiceID = NullInt, b.UserServiceID = NullInt,
                     CmpInt(a.UserServiceID, b.UserServiceID), FALSE, nullsFirst)
        c3 == CmpKey(a.CreateDate = NullInt, b.CreateDate = NullInt,
                     CmpInt(a.CreateDate, b.CreateDate), TRUE, FALSE)
    IN  IF c1 # 0 THEN c1 ELSE IF c2 # 0 THEN c2 ELSE c3
ByUsername(rows) ==
    \A i, j \in 1..Len(rows) :
        i < j => OrderBy(rows[i].username, rows[j].username, rows[i], rows[j], FALSE) <= 0
ByReseller(rows, nullsFirst) ==
    \A i, j \in 1..Len(rows) :
        i < j => OrderBy(rows[i].rs_username, rows[j].rs_username, rows[i], rows[j],
                         nullsFirst) <= 0

BackfillDone == wcmd = "backfill" /\ Logged("backfill_success")

\* C10 as stated: the batch of a full/auto or windowed sync and the table the
\* backfill creates are ordered by (username ascending, UserServiceID ascending,
\* CreateDate descending, nulls last).
C10_OrderedByUsername ==
    /\ wcmd \in { "full", "window" } => ByUsername(df)
    /\ BackfillDone => ByUsername(target)

\* C10 amended: the batch of a full/auto or windowed sync is ordered by (rs_username,
\* the reseller's name, ascending, UserServiceID ascending, CreateDate descending),
\* nulls last; the table the backfill creates is ordered by the same keys, a null
\* rs_username or UserServiceID first and a null CreateDate last; rows of one
\* username are not ordered by UserServiceID.
C10_OrderedByReseller ==
    /\ wcmd \in { "full", "window" } => ByReseller(df, FALSE)
    /\ BackfillDone => ByReseller(target, TRUE)

\* a batch holds two rows of one username, the one with the larger UserServiceID first
C10_Witness ==
    /\ wcmd \in { "full", "window" }
    /\ \E i, j \in 1..Len(df) :
         /\ i < j
         /\ df[i].username = df[j].username
         /\ df[i].UserServiceID > df[j].UserServiceID

\* C11: the batch of a full/auto or windowed sync, and the stage table loaded from it,
\* carries the ids 1..N, the row at position i having id i, whatever ids the rows had
\* when their sources were fetched.
C11_IdsArePositions ==
    /\ wcmd \in { "full", "window" } => \A i \in 1..Len(df) : df[i].id = i
    /\ (wcmd = "window" /\ stage.exists) =>
         \A i \in 1..Len(stage.rows) : stage.rows[i].id = i
    /\ BackfillDone => \A i \in 1..Len(target) : target[i].id = i

\* a stage table holds the rows of two sources, each of which numbered its rows from
\* 1, and a row whose id is not the id its source gave it
C11_Witness ==
    /\ wcmd = "window"
    /\ stage.exists
    /\ Len(all_dfs) = 2
    /\ all_dfs[1][1].id = 1
    /\ all_dfs[2][1].id = 1
    /\ \E i \in 1..Len(stage.rows) : \E k \in 1..Len(all_dfs[2]) :
         /\ [ stage.rows[i] EXCEPT !.id = 0 ] = [ CsvLoad(all_dfs[2])[k] EXCEPT !.id = 0 ]
         /\ stage.rows[i].id # all_dfs[2][k].id

\* the ids of the source rows created on or after the cutoff of the running backfill
LiveIds ==
    { r.User_ServiceBase_Id :
        r \in UNION { { x \in Range(FactTable(srcFacts[n])) :
                            DateOf(x.CDT) >= wargs.start[1] } : n \in SourceNames } }

\* a legacy row is selected: created before the cutoff, its id not a live id
LegacySelected(h) ==
    /\ SafeCastDate(h.CreatDate) # NullInt
    /\ SafeCastDate(h.CreatDate) < wargs.start[1]
    /\ SafeCastInt(h.UserServiceId) \notin LiveIds

\* the positions of the target rows that legacy row h gave (the legacy rows differ
\* from one another, and from every live row, in these four columns)
LegacyCopies(h) ==
    { i \in 1..Len(target) :
        /\ target[i].username = h.Username
        /\ target[i].rs_username = h.Creator
        /\ target[i].UserServiceID = SafeCastInt(h.UserServiceId)
        /\ target[i].CreateDate = SafeCastDate(h.CreatDate) }

\* some source has a reseller whose normalized name is the legacy row's creator
KnownCreator(h) ==
    /\ h.Creator # Null
    /\ \E n \in SourceNames : \E i \in 1..Len(ResellerTable(srcFacts[n])) :
         LET name == ResellerTable(srcFacts[n])[i].ResellerName IN
         /\ name # Null
         /\ Lower(Strip(name)) # << >>
         /\ Lower(Strip(name)) = Lower(Strip(h.Creator))

\* C12: after a successful backfill with cutoff C a legacy row created before C whose
\* UserServiceID no live row has is in the target exactly once, with null rs_userid
\* and rs_name when its creator is no reseller's normalized name, and with both set
\* when it is; a legacy row whose UserServiceID a live row has, or that was not
\* created before C, is not in the target.
C12_LegacyRowsOnce ==
    BackfillDone =>
        \A k \in 1..Len(HspTable) :
            LET h == HspTable[k] IN
            IF LegacySelected(h)
            THEN /\ Cardinality(LegacyCopies(h)) = 1
                 /\ \A i \in LegacyCopies(h) :
                      IF KnownCreator(h)
                      THEN target[i].rs_userid # NullInt /\ target[i].rs_name # Null
                      ELSE target[i].rs_userid = NullInt /\ target[i].rs_name = Null
            ELSE LegacyCopies(h) = { }

\* a backfill left out a legacy row whose id is live, and wrote one legacy row whose
\* creator several resellers share and one whose creator is unknown
C12_Witness ==
    /\ BackfillDone
    /\ SafeCastInt(Hsp1.UserServiceId) \in LiveIds
    /\ LegacyCopies(Hsp1) = { }
    /\ KnownCreator(HspTable[6])
    /\ Cardinality(LegacyCopies(HspTable[6])) = 1
    /\ Cardinality({ m \in 1..Len(Concat(all_map)) :
                       Concat(all_map)[m].creator_norm = LowerTrim(HspTable[6].Creator) }) > 1
    /\ ~KnownCreator(Hsp2)
    /\ Cardinality(LegacyCopies(Hsp2)) = 1

\* the source rows of source n created on or after the cutoff of the running backfill
LiveFacts(n) ==
    { r \in Range(FactTable(srcFacts[n])) : DateOf(r.CDT) >= wargs.start[1] }

\* the target row, id apart, that source row r of source n gives
LiveRow(n, r) ==
    [ id |-> 0, CreateDate |-> DateOf(r.CDT), rs_userid |-> r.Creator_Id,
      rs_username |-> r.ResellerName, rs_name |-> n,
      UserServiceID |-> r.User_ServiceBase_Id, username |-> r.Username ]

Unnumbered(row) == [ row EXCEPT !.id = 0 ]

\* C13: after a successful backfill with cutoff C every source row of every source
\* created on or after C is in the target, once; every other target row is a selected
\* legacy row; nothing of the previous content is kept for its own sake.
C13_LiveRowsAllPresent ==
    BackfillDone =>
        /\ \A n \in SourceNames : \A r \in LiveFacts(n) :
             Cardinality({ i \in 1..Len(target) :
                             Unnumbered(target[i]) = LiveRow(n, r) }) = 1
        /\ \A i \in 1..Len(target) :
             \/ \E n \in SourceNames : \E r \in LiveFacts(n) :
                    Unnumbered(target[i]) = LiveRow(n, r)
             \/ \E k \in 1..Len(HspTable) :
                    LegacySelected(HspTable[k]) /\ i \in LegacyCopies(HspTable[k])

\* a backfill over a populated target wrote the live rows of both sources and dropped
\* a row the target had
C13_Witness ==
    /\ BackfillDone
    /\ LiveFacts(SrcA) # { }
    /\ LiveFacts(SrcB) # { }
    /\ \E j \in 1..Len(wpre) :
         \A i \in 1..Len(target) : Unnumbered(target[i]) # Unnumbered(wpre[j])

\* the resellers of all sources, in configuration order then row order, each with
\* the lowercase of its trimmed name
NameEntries ==
    Concat([ k \in 1..Len(SourceList) |->
        LET tbl == ResellerTable(srcFacts[SourceList[k]]) IN
        [ i \in 1..Len(tbl) |->
            [ key |-> IF tbl[i].ResellerName = Null THEN Null
                      ELSE Lower(Strip(tbl[i].ResellerName)),
              rs_userid |-> tbl[i].Reseller_Id,
              rs_name |-> SourceList[k] ] ] ])
NameKeys == { NameEntries[i].key : i \in 1..Len(NameEntries) } \ { Null, << >> }
FirstSeen(key) ==
    NameEntries[CHOOSE i \in 1..Len(NameEntries) :
                    /\ NameEntries[i].key = key
                    /\ \A j \in 1..(i - 1) : NameEntries[j].key # key]

\* C14: the reseller map the backfill stages has one entry for each distinct
\* non-empty normalized reseller name (the lowercase of the trimmed name) and no
\* other; the entry of a name is that of the first reseller with that normalized
\* name, in source-configuration order then row order.
C14_MapFirstSeenWins ==
    (wcmd = "backfill" /\ mapStage.exists) =>
        /\ { mapStage.rows[i].creator_norm : i \in 1..Len(mapStage.rows) } = NameKeys
        /\ \A i, j \in 1..Len(mapStage.rows) :
             i # j => mapStage.rows[i].creator_norm # mapStage.rows[j].creator_norm
        /\ \A i \in 1..Len(mapStage.rows) :
             LET e == FirstSeen(mapStage.rows[i].creator_norm) IN
             /\ mapStage.rows[i].rs_userid = e.rs_userid
             /\ mapStage.rows[i].rs_name = e.rs_name

\* a staged map kept the first source's entry of a name that the second source has
\* twice, with other ids, written "B " and "b"
C14_Witness ==
    /\ wcmd = "backfill"
    /\ mapStage.exists
    /\ \E i \in 1..Len(mapStage.rows) :
         /\ mapStage.rows[i].rs_name = SrcA
         /\ Cardinality({ j \in 1..Len(NameEntries) :
                            /\ NameEntries[j].key = mapStage.rows[i].creator_norm
                            /\ NameEntries[j].rs_name = SrcB }) = 2
         /\ \E j \in 1..Len(NameEntries) :
              /\ NameEntries[j].key = mapStage.rows[i].creator_norm
              /\ NameEntries[j].rs_userid # mapStage.rows[i].rs_userid

(***************************************************************************)
(* reports.sync._parse_sources                                             *)
(***************************************************************************)
\* how many records a MARIA_SOURCES descriptor holds at most
MaxRecords == 2

Semicolon == 59
Comma == 44

\* str.split(sep) on a one-character separator
RECURSIVE Split(_, _)
Split(s, sep) ==
    IF \A i \in 1..Len(s) : s[i] # sep THEN << s >>
    ELSE LET i == CHOOSE k \in 1..Len(s) :
                      s[k] = sep /\ \A j \in 1..(k - 1) : s[j] # sep
         IN  << SubSeq(s, 1, i - 1) >> \o Split(SubSeq(s, i + 1, Len(s)), sep)

\* sep.join(items)
RECURSIVE Join(_, _)
Join(items, sep) ==
    IF items = << >> THEN << >>
    ELSE IF Len(items) = 1 THEN Head(items)
    ELSE Head(items) \o << sep >> \o Join(Tail(items), sep)

\* int(text) succeeds: digits, with white space around them allowed
IsIntText(text) ==
    LET t == Strip(text) IN t # << >> /\ \A i \in 1..Len(t) : IsDigit(t[i])
\* int(text)
IntOf(text) == ParseInt(Strip(text))

\* the records an operator may write into MARIA_SOURCES: "a,h,1,d,u,p",
\* " b ,h,2,d,u,p " (white space), ",h,1,d,u,p" (no name), "a,h,1,d,u,p,z" (seven
\* fields), "a,h,1" (three fields), " " (blank), "c,h,x,d,u,p" (port no number)
Records ==
    { << 97, 44, 104, 44, 49, 44, 100, 44, 117, 44, 112 >>,
      << 32, 98, 32, 44, 104, 44, 50, 44, 100, 44, 117, 44, 112, 32 >>,
      << 44, 104, 44, 49, 44, 100, 44, 117, 44, 112 >>,
      << 97, 44, 104, 44, 49, 44, 100, 44, 117, 44, 112, 44, 122 >>,
      << 97, 44, 104, 44, 49 >>,
      << 32 >>,
      << 99, 44, 104, 44, 120, 44, 100, 44, 117, 44, 112 >> }

\* the values of MARIA_SOURCES: up to MaxRecords records joined by ';'
Descriptors ==
    UNION { { Join(recs, Semicolon) : recs \in [ 1..n -> Records ] } :
            n \in 0..MaxRecords }

Source(name, host, port, db, user, password) ==
    [ name |-> name, host |-> host, port |-> port, db |-> db, user |-> user,
      password |-> password ]

\* the loop over the records: the sources appended so far, or the ValueError of
\* int(port) that ends the loop
RECURSIVE ParseRecords(_, _)
ParseRecords(items, sources) ==
    IF items = << >> THEN [ status |-> "returned", value |-> sources ]
    ELSE LET item == Strip(Head(items))
             parts == [ i \in 1..Len(Split(item, Comma)) |->
                          Strip(Split(item, Comma)[i]) ]
         IN  IF item = << >> THEN ParseRecords(Tail(items), sources)
             ELSE IF Len(parts) < 6 THEN ParseRecords(Tail(items), sources)
             ELSE IF ~IsIntText(parts[3])
                  THEN [ status |-> "raised", value |-> << >> ]
             ELSE ParseRecords(Tail(items),
                      Append(sources,
                          Source(OrStr(parts[1], parts[2]), parts[2],
                                 IntOf(parts[3]), parts[4], parts[5], parts[6])))

\* the single source of MARIA_DB, MARIA_HOST, MARIA_PORT, MARIA_USER and
\* MARIA_PASSWORD, of which only MARIA_PORT is set here
Fallback(env) ==
    IF env.MARIA_PORT # Null /\ ~IsIntText(env.MARIA_PORT)
    THEN [ status |-> "raised", value |-> << >> ]
    ELSE [ status |-> "returned",
           value |-> << Source(<< 100, 101, 102, 97, 117, 108, 116 >>,
                               << 108, 111, 99, 97, 108, 104, 111, 115, 116 >>,
                               IF env.MARIA_PORT = Null THEN 3306
                               ELSE IntOf(env.MARIA_PORT),
                               << >>, << 114, 111, 111, 116 >>, << >>) >> ]

\* _parse_sources()
ParseSources(env) ==
    LET sources_raw == Strip(env.MARIA_SOURCES)
        multi == ParseRecords(Split(sources_raw, Semicolon), << >>)
    IN  IF sources_raw # << >> /\ multi.status = "raised" THEN multi
        ELSE IF sources_raw # << >> /\ multi.value # << >> THEN multi
        ELSE Fallback(env)

\* a caller calls _parse_sources()
ParseCall ==
    /\ parsed = NoCall
    /\ parsed' = ParseSources(environ)
    /\ UNCHANGED << refVars, whVars, environ, logtext, readres, traffic, package,
                    engine, store, ov >>

ParseInit ==
    \* MARIA_PORT is unset, a number ("3") or no number ("x")
    /\ environ \in [ MARIA_SOURCES : Descriptors,
                      MARIA_PORT : { Null, << 51 >>, << 120 >> } ]
    /\ parsed = NoCall
    /\ logtext = [ exists |-> FALSE, lines |-> << >> ]
    /\ readres = NoRead
    /\ traffic = NoTraffic
    /\ package = NoCall
    /\ OverlapIdle
    /\ refData = [ n \in SourceNames |-> 0 ]
    /\ RefIdle
    /\ srcFacts = [ n \in SourceNames |-> 0 ]
    /\ WhIdle

SpecParse == ParseInit /\ [][ParseCall]_vars

(***************************************************************************)
(* Claims on _parse_sources                                                *)
(***************************************************************************)
\* the records of the descriptor, stripped, the empty ones left out
DescriptorRecords ==
    LET items == Split(Strip(environ.MARIA_SOURCES), Semicolon)
        NotEmpty(item) == Strip(item) # << >>
    IN  SelectSeq(items, NotEmpty)
Fields(item) == Split(Strip(item), Comma)
WellFormed(item) == Len(Fields(item)) >= 6
WellFormedRecords == SelectSeq(DescriptorRecords, WellFormed)

\* C15: _parse_sources never raises; when a descriptor is present and all of its
\* records have fewer than 6 fields it returns the empty list, and when only some
\* have it returns one source per well-formed record, in descriptor order
C15_MalformedRecordsGiveEmptyList ==
    parsed # NoCall =>
        /\ parsed.status = "returned"
        /\ Strip(environ.MARIA_SOURCES) # << >> =>
              /\ Len(parsed.value) = Len(WellFormedRecords)
              /\ \A i \in 1..Len(parsed.value) :
                    parsed.value[i].host = Strip(Fields(WellFormedRecords[i])[2])

(***************************************************************************)
(* The commands of one operator                                            *)
(***************************************************************************)
\* The cache command and the warehouse commands are separate processes that share
\* no store, so the order in which they run matters to neither; here they run one
\* at a time, the cache command before the first warehouse command.
CacheTurn == wpc = "idle" /\ runs = 0
WarehouseTurn == rpc = "idle"

CmdNext ==
    \/ WarehouseTurn /\ WhNext
    \/ CacheTurn /\ RefCall
    \/ CacheTurn /\ RefFetchFail
    \/ CacheTurn /\ RefFetch
    \/ CacheTurn /\ RefReplace
    \/ CacheTurn /\ RefReplaceFail
    \/ CacheTurn /\ RefRollback
    \/ CacheTurn /\ RefCommit
    \/ CacheTurn /\ RefReturn

SpecCmd == WhInit /\ [][CmdNext]_vars

\* a command failed its configuration or validation checks
WhRejected == wpc = "raised" /\ werr \in { "config", "validation" }
RefRejected == rpc = "raised" /\ rerr = "config"

ProgressTypes ==
    { "sync_start", "source_start", "source_success", "source_error", "sync_no_data",
      "sync_loaded", "window_sync_start", "window_source_success",
      "window_source_error", "window_sync_no_data", "window_stage_create",
      "window_sync_success", "backfill_start", "backfill_success" }
\* the last event appended tells of a failure
ErrorLogged ==
    /\ emitted # << >>
    /\ emitted[Len(emitted)].type \notin ProgressTypes
    /\ logfile # << >>
    /\ logfile[Len(logfile)] = emitted[Len(emitted)]
\* a write of the windowed sync or of the backfill failed and the error reached the caller
WhWriteFailed ==
    /\ wcmd \in { "window", "backfill" }
    /\ wpc = "raised"
    /\ werr \in { "stage_load", "swap", "query" }
\* a cache replacement failed and the error reached the caller
RefWriteFailed == rpc = "raised" /\ rerr = "write"

\* C17: when the cache replacement of the reference sync, the stage load or the swap
\* of the windowed sync, or the stage load or the create-or-replace of the backfill
\* fails, an error event is in the log by the time the caller has the error
C17_WriteFailureIsLogged ==
    /\ WhWriteFailed => ErrorLogged
    /\ RefWriteFailed => ErrorLogged

(***************************************************************************)
(* The warehouse commands over a log whose writes can fail                 *)
(***************************************************************************)
\* how many writes to the log fail at most
MaxLogFailures == 2

\* a line an earlier command left in the log
OldLine == Event("sync_loaded", Null)

\* one command is about to run; the log is empty or holds an earlier line
LogInit ==
    /\ srcFacts \in FactSets
    /\ logfile \in { << >>, << OldLine >> }
    /\ target = << >>
    /\ wcmd = "none"
    /\ wpc = "idle"
    /\ wargs = NoWhArgs
    /\ widx = 1
    /\ all_dfs = << >>
    /\ df = << >>
    /\ stage = Absent
    /\ mariaStage = Absent
    /\ mapStage = Absent
    /\ all_map = << >>
    /\ emitted = << >>
    /\ bqjobs = << >>
    /\ werr = "none"
    /\ wret = 0
    /\ wpre = << >>
    /\ runs = 0
    /\ logBudget = MaxLogFailures
    /\ refData = [ n \in SourceNames |-> 0 ]
    /\ RefIdle
    /\ ToolIdle

\* the steps of the one command, to its return or its error
LogNext ==
    \/ FullStart
    \/ FullFetch
    \/ FullFetchFail
    \/ FullPrepare
    \/ FullLoad
    \/ FullLoadFail
    \/ WinStart
    \/ WinFetch
    \/ WinFetchFail
    \/ WinPrepare
    \/ WinStageLoad
    \/ WinStageLoadFail
    \/ WinSwapDelete
    \/ WinSwapDeleteFail
    \/ WinSwapInsert
    \/ WinSwapInsertFail
    \/ BfStart
    \/ BfFetch
    \/ BfFetchFail
    \/ BfStageLoadFail
    \/ BfMapFetchFail
    \/ BfPrepare
    \/ BfMapStageFail
    \/ BfQuery
    \/ BfQueryFail
    \/ Cleanup

SpecLog == LogInit /\ [][LogNext]_vars

(***************************************************************************)
(* Claims on the event log                                                 *)
(***************************************************************************)
\* how many writes to the log have failed
FailedWrites == MaxLogFailures - logBudget
\* the lines the running command has appended
NewLines ==
    SubSeq(logfile, Len(logfile) - (Len(emitted) - FailedWrites) + 1, Len(logfile))

\* sub is seq with some elements left out
RECURSIVE IsSubSeq(_, _)
IsSubSeq(sub, seq) ==
    IF sub = << >> THEN TRUE
    ELSE IF seq = << >> THEN FALSE
    ELSE IF Head(sub) = Head(seq) THEN IsSubSeq(Tail(sub), Tail(seq))
    ELSE IsSubSeq(sub, Tail(seq))

\* the full sync is over and was not rejected for its configuration
FullOver == wcmd = "full" /\ wpc \in { "returned", "raised" } /\ werr # "config"
LastCall == emitted[Len(emitted)].type

\* C18: whichever writes to the log fail, log_sync_event returns and the sync goes
\* on: the full sync makes every call it makes when all writes succeed (the start,
\* one outcome per source, the end), loads what it fetched and returns its size, or
\* raises for the failed load only; the log just lacks the lines that failed
C18_LogFailureChangesNothing ==
    /\ Len(emitted) >= FailedWrites
    /\ Len(logfile) >= Len(emitted) - FailedWrites
    /\ IsSubSeq(NewLines, emitted)
    /\ werr \in { "none", "config", "validation", "fetch", "no_rows", "load",
                   "stage_load", "swap", "query" }
    /\ FullOver =>
          /\ emitted[1].type = "sync_start"
          /\ Len(Outcomes) = Len(SourceList)
          /\ (wpc = "returned" /\ all_dfs = << >>) =>
                LastCall = "sync_no_data" /\ wret = 0 /\ target = wpre
          /\ (wpc = "returned" /\ all_dfs # << >>) =>
                /\ LastCall = "sync_loaded"
                /\ wret = Len(Concat(all_dfs))
                /\ Len(target) = wret
          /\ wpc = "raised" =>
                LastCall = "sync_error" /\ werr = "load" /\ target = wpre

\* a full sync has loaded rows and returned although two writes to the log failed
C18_Witness ==
    /\ FullOver
    /\ wpc = "returned"
    /\ wret > 0
    /\ FailedWrites = 2
    /\ Len(NewLines) < Len(emitted)

\* what a step adds to the calls made and to the log
NewCalls == SubSeq(emitted', Len(emitted) + 1, Len(emitted'))
AddedLines == SubSeq(logfile', Len(logfile) + 1, Len(logfile'))

\* C19: every step of a command leaves the lines of the log as they are and in place,
\* and adds at the end one line for each call of log_sync_event whose write
\* succeeded, in the order of the calls
C19_LogIsAppendOnly ==
    [][ /\ Len(logfile') >= Len(logfile)
        /\ SubSeq(logfile', 1, Len(logfile)) = logfile
        /\ Len(emitted') >= Len(emitted)
        /\ Len(AddedLines) = Len(NewCalls) - (logBudget - logBudget')
        /\ IsSubSeq(AddedLines, NewCalls) ]_vars

\* the command has appended lines after an earlier line, one of its writes failed
C19_Witness ==
    /\ Len(logfile) >= 3
    /\ logfile[1] = OldLine
    /\ Len(emitted) >= 3
    /\ FailedWrites = 1

(***************************************************************************)
(* reports.sync.read_sync_logs                                             *)
(***************************************************************************)
\* how many lines the log holds at most
MaxLines == 3
\* the largest limit a reader asks for
MaxN == 3

\* the lines a log can hold: the JSON texts "{}" and " 7 ", the texts "{x" and
\* " x x " that are no JSON, the empty line and a line of white space
LineTexts ==
    { << 123, 125 >>, << 32, 55, 32 >>, << 123, 120 >>, << 32, 120, 32, 120, 32 >>,
      << >>, << 32, 32 >> }

\* the files at LOG_PATH: missing, or up to MaxLines lines
LogFiles ==
    { [ exists |-> FALSE, lines |-> << >> ] } \cup
    UNION { { [ exists |-> TRUE, lines |-> ls ] : ls \in [ 1..n -> LineTexts ] } :
            n \in 0..MaxLines }

\* json.loads(text) succeeds: of the JSON grammar, the empty object and the numbers
IsJson(text) ==
    \/ text = << 123, 125 >>
    \/ text # << >> /\ \A i \in 1..Len(text) : IsDigit(text[i])
\* json.loads(text): the empty dict, or the int
Loads(text) ==
    IF text = << 123, 125 >> THEN [ kind |-> "dict", type |-> Null, message |-> Null,
                                    number |-> 0 ]
    ELSE [ kind |-> "int", type |-> Null, message |-> Null, number |-> ParseInt(text) ]
\* {'ts': None, 'type': 'raw', 'message': line, 'data': {}}
RawEntry(line) ==
    [ kind |-> "dict", type |-> << 114, 97, 119 >>, message |-> line, number |-> 0 ]

\* lines[:limit]
FirstLines(lines, limit) == SubSeq(lines, 1, Min(limit, Len(lines)))
\* lines[-limit:] for limit > 0
LastLines(lines, limit) ==
    SubSeq(lines, Len(lines) - Min(limit, Len(lines)) + 1, Len(lines))

\* the loop over the tail
RECURSIVE Entries(_)
Entries(tail) ==
    IF tail = << >> THEN << >>
    ELSE LET line == Strip(Head(tail)) IN
         IF line = << >> THEN Entries(Tail(tail))
         ELSE IF IsJson(line) THEN << Loads(line) >> \o Entries(Tail(tail))
         ELSE << RawEntry(line) >> \o Entries(Tail(tail))

\* read_sync_logs(limit)
ReadSyncLogs(limit, file) ==
    IF limit <= 0 THEN << >>
    ELSE IF ~file.exists THEN << >>
    ELSE Entries(LastLines(file.lines, limit))

\* a reader calls read_sync_logs(limit)
ReadCall ==
    /\ readres = NoRead
    /\ \E limit \in (0 - 1)..MaxN :
         readres' = [ status |-> "returned", limit |-> limit,
                      value |-> ReadSyncLogs(limit, logtext) ]
    /\ UNCHANGED << refVars, whVars, environ, parsed, logtext, traffic, package,
                    engine, store, ov >>

ReadInit ==
    /\ logtext \in LogFiles
    /\ readres = NoRead
    /\ environ = [ MARIA_SOURCES |-> << >>, MARIA_PORT |-> Null ]
    /\ parsed = NoCall
    /\ traffic = NoTraffic
    /\ package = NoCall
    /\ OverlapIdle
    /\ refData = [ n \in SourceNames |-> 0 ]
    /\ RefIdle
    /\ srcFacts = [ n \in SourceNames |-> 0 ]
    /\ WhIdle

SpecRead == ReadInit /\ [][ReadCall]_vars

(***************************************************************************)
(* Claims on read_sync_logs                                                *)
(***************************************************************************)
Max0(n) == IF n > 0 THEN n ELSE 0
Read == readres.status = "returned"
\* the last N lines of the log, N the limit of the call
WantedLines ==
    LET n == Len(logtext.lines)
        k == IF readres.limit <= 0 \/ ~logtext.exists THEN 0
             ELSE Min(readres.limit, n)
    IN  [ i \in 1..k |-> logtext.lines[n - k + i] ]
IsBlank(line) == \A i \in 1..Len(line) : IsSpace(line[i])
NotBlank(line) == ~IsBlank(line)
\* the entry a line stands for: its JSON value, or the raw record of the text
EntryOf(text) == IF IsJson(text) THEN Loads(text) ELSE RawEntry(text)

\* C20 as stated: the result has one entry for each of the last N lines, in order, a
\* line that is no JSON giving a raw record with the line as its message; it is
\* empty when N <= 0 or the log is missing
C20_OneEntryPerLine ==
    Read =>
        /\ Len(readres.value) = Len(WantedLines)
        /\ Len(readres.value) <= Max0(readres.limit)
        /\ \A i \in 1..Len(readres.value) :
              IF IsJson(Strip(WantedLines[i]))
              THEN readres.value[i] = Loads(Strip(WantedLines[i]))
              ELSE readres.value[i] = RawEntry(WantedLines[i])

\* C20, amended: the result has one entry for each of the last N lines that is not
\* blank, in order: the JSON value of the line, or a raw record whose message is the
\* line without the white space around it; it never has more than N entries and is
\* empty when N <= 0 or the log is missing
C20_OneEntryPerNonBlankLine ==
    Read =>
        LET kept == SelectSeq(WantedLines, NotBlank) IN
        /\ Len(readres.value) = Len(kept)
        /\ Len(readres.value) <= Max0(readres.limit)
        /\ \A i \in 1..Len(kept) : readres.value[i] = EntryOf(Strip(kept[i]))

\* a log longer than the limit is read, its tail holding a blank line and a line that
\* is no JSON
C20_Witness ==
    /\ Read
    /\ readres.limit > 0
    /\ Len(logtext.lines) > readres.limit
    /\ \E i, j \in 1..Len(WantedLines) :
         /\ IsBlank(WantedLines[i])
         /\ NotBlank(WantedLines[j]) /\ ~IsJson(Strip(WantedLines[j]))
    /\ readres.value # << >>

(***************************************************************************)
(* More claims on the reference cache sync                                 *)
(***************************************************************************)
\* the row limit of the running call cuts: it is a number above 0
LimitCuts == rargs.limit # None /\ rargs.limit[1] > 0
\* how many rows of table T of source name the running call keeps
WantedCount(T, name) ==
    LET n == Len(SourceTable(refData[name], TableNo(T)))
    IN  IF LimitCuts THEN Min(rargs.limit[1], n) ELSE n

\* C21: with a row limit N > 0 every table is cut to its first min(N, length) rows:
\* each count of each summary is that number, at most N, and a write run stores just
\* these rows for the source; with a limit of 0, None or below 0 every table is whole
C21_LimitCutsEveryTable ==
    /\ \A i \in 1..Len(summaries) : \A T \in TableSet :
          /\ summaries[i].counts[T] = WantedCount(T, summaries[i].source)
          /\ LimitCuts => summaries[i].counts[T] <= rargs.limit[1]
    /\ RefSucceeded =>
          \A i \in 1..Len(rqueue) : \A T \in TableSet :
              ItemsOf(cache[T], rqueue[i]) =
                  Items(TableNo(T), rqueue[i],
                        SubSeq(SourceTable(refData[rqueue[i]], TableNo(T)), 1,
                               WantedCount(T, rqueue[i])))

\* a write run with a limit above 0 stored fewer rows of a table than the source has
C21_Witness ==
    /\ RefSucceeded
    /\ LimitCuts
    /\ \E T \in TableSet :
         /\ Len(ItemsOf(cache[T], rqueue[1])) = rargs.limit[1]
         /\ Len(SourceTable(refData[rqueue[1]], TableNo(T))) > rargs.limit[1]

\* the sync step of a source is under way
InStep == rpc \in { "source", "write", "abort", "commit" }

\* C25: a step of the reference sync of a source, with or without dry run, succeeding
\* or failing, leaves the stored rows tagged with every other source name as they
\* are, in every table, also when those rows carry the same source_id
C25_OtherSourcesUntouched ==
    [][ InStep =>
          \A T \in TableSet : \A n \in SourceNames \ { rqueue[ridx] } :
              ItemsOf(cache'[T], n) = ItemsOf(cache[T], n) ]_vars

\* the second source of a run has been replaced, its rows differ from those stored
\* before, and the rows of the first source with the same source_id are in the table
C25_Witness ==
    /\ rpc = "commit"
    /\ Len(rqueue) = 2 /\ ridx = 2
    /\ ItemsOf(cache["Reseller"], rqueue[2]) # ItemsOf(pre["Reseller"], rqueue[2])
    /\ \E i, j \in 1..Len(cache["Reseller"]) :
          /\ cache["Reseller"][i].source_name = rqueue[1]
          /\ cache["Reseller"][j].source_name = rqueue[2]
          /\ cache["Reseller"][i].source_id = cache["Reseller"][j].source_id

\* the fetch of the source at position ridx failed and the error left the function
FetchRaised == rpc = "raised" /\ rerr = "fetch"

\* C26: when the fetch of the k-th source fails the call raises: the stored rows of
\* the k-th and of every later source are those stored before the call, the earlier
\* sources hold the rows this run kept for them (in a dry run, the rows stored
\* before), only the earlier sources were fetched, and no connection is left open
C26_FetchFailureAborts ==
    FetchRaised =>
        /\ Len(summaries) = ridx - 1
        /\ conns = { }
        /\ \A i \in 1..Len(rqueue) : \A T \in TableSet :
              ItemsOf(cache[T], rqueue[i]) =
                  IF i < ridx /\ ~rargs.dry_run THEN KeptItems(T, rqueue[i])
                  ELSE ItemsOf(pre[T], rqueue[i])

\* the fetch of the second source failed after the first source was replaced by
\* other rows, and rows of the second source are stored
C26_Witness ==
    /\ FetchRaised
    /\ ridx = 2
    /\ ~rargs.dry_run
    /\ ItemsOf(cache["Reseller"], rqueue[1]) # ItemsOf(pre["Reseller"], rqueue[1])
    /\ ItemsOf(cache["Reseller"], rqueue[1]) # << >>
    /\ ItemsOf(cache["Reseller"], rqueue[2]) # << >>

WindowFacts(n) ==
    { r \in Range(FactTable(srcFacts[n])) :
        /\ DateOf(r.CDT) >= wargs.start[1]
        /\ wargs.end # None => DateOf(r.CDT) <= wargs.end[1] }
\* the rows the running windowed sync has fetched from source n, ids apart
FetchedFrom(n) ==
    { Unnumbered(Concat(all_dfs)[i]) :
        i \in { j \in 1..Len(Concat(all_dfs)) : Concat(all_dfs)[j].rs_name = n } }
\* the loop of a windowed sync is over, no fetch failed and no row limit was given
WindowFetched ==
    /\ wcmd = "window"
    /\ LoopOver
    /\ wargs.limit = << 0 >>
    /\ \A n \in SourceNames : ~SourceFailed(n)

\* C22: the date filters are inclusive on calendar dates: with start date A and end
\* date B the query returns exactly the source rows created on a day in [A, B], at
\* whatever time of day, so the windowed sync refetches the range of days it deletes
C22_DateFiltersInclusive ==
    WindowFetched =>
        \A n \in SourceNames :
            FetchedFrom(n) = { LiveRow(n, r) : r \in WindowFacts(n) }

\* the rows of a table inside the window that carry the name of a source
WindowRowsOf(tbl, n) ==
    LET Mine(row) == InWindow(row) /\ row.rs_name = n IN SelectSeq(tbl, Mine)

\* C28: a successful windowed sync deletes every target row of the window, whatever
\* source it came from: afterwards the window holds, for a source whose fetch failed,
\* no row at all, and for every other source as many rows as its fetch returned
\* under the row limit; what was stored in the window before is not kept
C28_FailedSourceLosesWindow ==
    WinSucceeded =>
        /\ \A n \in SourceNames :
              Len(WindowRowsOf(target, n)) =
                  IF SourceFailed(n) THEN 0 ELSE Len(FetchResult(n))
        /\ Len(SelectSeq(target, InWindow)) = Len(df)

\* the fetch of one source failed and the rows it had in the window are gone, while
\* the window holds the rows fetched from the other source
C28_Witness ==
    /\ WinSucceeded
    /\ \E f, g \in SourceNames :
          /\ SourceFailed(f)
          /\ ~SourceFailed(g)
          /\ WindowRowsOf(wpre, f) # << >>
          /\ WindowRowsOf(target, f) = << >>
          /\ WindowRowsOf(target, g) # << >>

\* no two rows of a table carry the same id
DistinctIds(tbl) ==
    \A i, j \in 1..Len(tbl) : i # j => tbl[i].id # tbl[j].id

\* a full/auto sync has loaded its batch
FullSucceeded == wcmd = "full" /\ wpc = "returned" /\ Logged("sync_loaded")

\* C29: a successful full/auto or windowed sync into a target whose ids are pairwise
\* distinct leaves them pairwise distinct, so that they are after any sequence of
\* such syncs: the batch numbered 1..N brings no id that a target row outside the
\* window carries
C29_TargetIdsDistinct ==
    ((FullSucceeded \/ WinSucceeded) /\ DistinctIds(wpre)) => DistinctIds(target)

\* the events that end a full/auto sync
TerminalTypes == { "sync_no_data", "sync_loaded", "sync_error" }
\* a full/auto sync that passed its configuration check
FullRunning == wcmd = "full" /\ werr # "config"
\* the number of events of a full/auto sync that went through all its sources
FullLength == 2 * Len(SourceList) + 2

UnitsPerGiB == 1024

\* the values a traffic column holds: NULL, 0, 5 MiB, 1.5 GiB, 10 GiB
TrafficValues == { NullInt, 0, 5, 1536, 10240 }

\* NULLIF(v, z) without its test: v itself
KeepZero(v, z) == v
\* NULLIF(v, z)
NullIf(v, z) == IF v = z THEN NullInt ELSE v

\* COALESCE(v1, v2, ...): the first value that is not NULL
RECURSIVE Coalesce(_)
Coalesce(vs) ==
    IF vs = << >> THEN NullInt
    ELSE IF Head(vs) # NullInt THEN Head(vs)
    ELSE Coalesce(Tail(vs))

\* ROUND(num / den, 2) for num >= 0, in hundredths: halves go up
Round2(num, den) == (200 * num + den) \div (2 * den)

\* CASE WHEN COALESCE(...) IS NULL THEN NULL ELSE ROUND(COALESCE(...) / 1073741824, 2)
PackageOf(t) ==
    LET c == Coalesce(<< NullIf(t.STrA, 0), NullIf(t.MTrA, 0), NullIf(t.DTrA, 0),
                         NullIf(t.YTrA, 0), NullIf(t.ExtraTraffic, 0) >>)
    IN  IF c = NullInt THEN NullInt ELSE Round2(c, UnitsPerGiB)

\* the query computes the Package of a row
PackageQuery ==
    /\ package = NoCall
    /\ package' = [ status |-> "returned", value |-> << PackageOf(traffic) >> ]
    /\ UNCHANGED << refVars, whVars, environ, parsed, logtext, readres, traffic,
                    engine, store, ov >>

PackageInit ==
    /\ traffic \in [ { "STrA", "MTrA", "DTrA", "YTrA", "ExtraTraffic" } -> TrafficValues ]
    /\ package = NoCall
    /\ environ = [ MARIA_SOURCES |-> << >>, MARIA_PORT |-> Null ]
    /\ parsed = NoCall
    /\ logtext = [ exists |-> FALSE, lines |-> << >> ]
    /\ readres = NoRead
    /\ OverlapIdle
    /\ refData = [ n \in SourceNames |-> 0 ]
    /\ RefIdle
    /\ srcFacts = [ n \in SourceNames |-> 0 ]
    /\ WhIdle

SpecPackage == PackageInit /\ [][PackageQuery]_vars

(***************************************************************************)
(* Claims on the Package column                                            *)
(***************************************************************************)
\* the traffic columns in the order STrA, MTrA, DTrA, YTrA, ExtraTraffic
TrafficList ==
    << traffic.STrA, traffic.MTrA, traffic.DTrA, traffic.YTrA, traffic.ExtraTraffic >>
Counts(v) == v # NullInt /\ v # 0
\* the first column that holds a value other than 0 and NULL; 0 when there is none
FirstCounting ==
    IF \A i \in 1..5 : ~Counts(TrafficList[i]) THEN 0
    ELSE CHOOSE i \in 1..5 :
             Counts(TrafficList[i]) /\ \A j \in 1..(i - 1) : ~Counts(TrafficList[j])
Computed == package.status = "returned"

\* C23 as stated: Package is the first value other than 0 and NULL among STrA, MTrA,
\* DTrA, YTrA, ExtraTraffic, divided by 2^30, and NULL when there is none
C23_PackageIsQuotient ==
    Computed =>
        IF FirstCounting = 0 THEN package.value[1] = NullInt
        ELSE package.value[1] * UnitsPerGiB = 100 * TrafficList[FirstCounting]

\* C23, amended: Package is the first value other than 0 and NULL among STrA, MTrA,
\* DTrA, YTrA, ExtraTraffic, divided by 2^30 and rounded to two decimals, so it is
\* within half a hundredth of the quotient; it is NULL when there is none; STrA = 0,
\* MTrA = 0, DTrA = 10737418240, YTrA = 0 gives 10
C23_PackageIsRoundedQuotient ==
    Computed =>
        IF FirstCounting = 0 THEN package.value[1] = NullInt
        ELSE LET exact == 100 * TrafficList[FirstCounting]
                 got == package.value[1] * UnitsPerGiB
             IN  /\ package.value[1] # NullInt
                 /\ 2 * (got - exact) <= UnitsPerGiB
                 /\ 2 * (exact - got) < UnitsPerGiB
                 /\ (TrafficList[FirstCounting] = 10240) => package.value[1] = 1000

\* the example of the specification, with a later column that holds another value
C23_Witness ==
    /\ Computed
    /\ traffic.STrA = 0 /\ traffic.MTrA = 0 /\ traffic.DTrA = 10240
    /\ traffic.YTrA = 0 /\ traffic.ExtraTraffic = 1536
    /\ package.value = << 1000 >>

(***************************************************************************)
(* Two reference syncs at once: maria_cache/sync.py _replace_for_source    *)
(* under transaction.atomic(using='cache'), each run on its own connection *)
(***************************************************************************)
\* The cache database keeps row versions.  A version is [item, ins, del]: ins is the
\* run whose open transaction inserted it (0 once committed), del the run whose open
\* transaction deleted it (0 when none did).  With "mysql" the transactions run at
\* READ COMMITTED, the isolation level Django sets; a DELETE locks the rows it scans
\* and waits for rows another transaction holds, an INSERT waits for nothing.  With
\* "sqlite3" the first write of a transaction takes the write lock of the database.
Runs == { 1, 2 }
OtherRun(p) == IF p = 1 THEN 2 ELSE 1
Engines == { "mysql", "sqlite3" }

\* both runs are sync_reference_tables(source_name=SrcA): no dry run, no limit
OvSource == SrcA

Version(it, p) == [ item |-> it, ins |-> p, del |-> 0 ]

\* the items of the versions a predicate keeps, in stored order
ItemsWhere(tbl, Keep(_)) ==
    LET kept == SelectSeq(tbl, Keep) IN [ i \in 1..Len(kept) |-> kept[i].item ]

\* what a reader of the cache sees: the committed rows
CommittedRows(tbl) ==
    LET IsCommitted(v) == v.ins = 0 IN ItemsWhere(tbl, IsCommitted)

\* what run p sees inside its transaction: the committed rows and its own changes
ViewOf(tbl, p) ==
    LET Seen(v) == v.ins \in { 0, p } /\ v.del # p IN ItemsWhere(tbl, Seen)

\* filter(source_name=name).delete() of run p that deletes nothing
MarkNothing(tbl, name, p) == tbl
\* filter(source_name=name).delete() of run p: the rows it sees are deleted
MarkDeleted(tbl, name, p) ==
    [ i \in 1..Len(tbl) |->
        IF tbl[i].item.source_name = name /\ tbl[i].ins \in { 0, p } /\ tbl[i].del = 0
        THEN [ tbl[i] EXCEPT !.del = p ]
        ELSE tbl[i] ]

\* bulk_create(items, ignore_conflicts=True) of run p: the rows BulkCreate adds to
\* what p sees
Inserted(t, tbl, items, p) ==
    LET view == ViewOf(tbl, p)
        after == BulkCreate(t, view, items)
    IN  tbl \o [ i \in 1..(Len(after) - Len(view)) |-> Version(after[Len(view) + i], p) ]

\* the atomic block of run p ends: its deletes and inserts become the committed rows
CommitOf(tbl, p) ==
    LET Kept(v) == v.del # p
        kept == SelectSeq(tbl, Kept)
    IN  [ i \in 1..Len(kept) |-> [ kept[i] EXCEPT !.ins = IF @ = p THEN 0 ELSE @ ] ]

\* the atomic block of run p is left by an exception: its changes are undone
RollbackOf(tbl, p) ==
    LET Kept(v) == v.ins # p
        kept == SelectSeq(tbl, Kept)
    IN  [ i \in 1..Len(kept) |-> [ kept[i] EXCEPT !.del = IF @ = p THEN 0 ELSE @ ] ]

\* run q holds rows of the source in the table: it inserted or deleted them and its
\* transaction is open
HoldsRows(tbl, name, q) ==
    \E i \in 1..Len(tbl) :
        tbl[i].item.source_name = name /\ (tbl[i].ins = q \/ tbl[i].del = q)

\* run q has written in its open transaction
HasWritten(q) ==
    \/ ov[q].pc \in { "insert", "commit" }
    \/ ov[q].pc = "delete" /\ ov[q].tab > 1

\* the delete of run p has to wait for the other run
Blocked(p) ==
    IF engine = "sqlite3" THEN HasWritten(OtherRun(p))
    ELSE HoldsRows(store[Tables[ov[p].tab]], OvSource, OtherRun(p))

\* after a table is replaced: the next table, or the end of the atomic block
OvAdvance(p) ==
    IF ov[p].tab < Len(Tables)
    THEN [ ov EXCEPT ![p].pc = "delete", ![p].tab = ov[p].tab + 1 ]
    ELSE [ ov EXCEPT ![p].pc = "commit" ]

\* run p is called, fetches the twelve row lists and enters the atomic block
OvFetch(p) ==
    /\ ov[p].pc = "idle"
    /\ ov' = [ ov EXCEPT ![p] =
                 [ pc |-> "delete", tab |-> 1,
                   rows |-> [ t \in 1..Len(Tables) |->
                                Truncate(SourceTable(refData[OvSource], t), None) ] ] ]
    /\ UNCHANGED << refVars, whVars, environ, parsed, logtext, readres, traffic, package,
                    engine, store >>

\* _replace_for_source of run p: the delete; `if not rows: return 0`
OvDelete(p) ==
    /\ ov[p].pc = "delete"
    /\ ~Blocked(p)
    /\ LET T == Tables[ov[p].tab] IN
         store' = [ store EXCEPT ![T] = MarkDeleted(store[T], OvSource, p) ]
    /\ ov' = IF ov[p].rows[ov[p].tab] = << >> THEN OvAdvance(p)
             ELSE [ ov EXCEPT ![p].pc = "insert" ]
    /\ UNCHANGED << refVars, whVars, environ, parsed, logtext, readres, traffic, package,
                    engine >>

\* _replace_for_source of run p: the builder and bulk_create
OvInsert(p) ==
    /\ ov[p].pc = "insert"
    /\ LET t == ov[p].tab
           T == Tables[t]
       IN  store' = [ store EXCEPT ![T] =
                        Inserted(t, store[T], Items(t, OvSource, ov[p].rows[t]), p) ]
    /\ ov' = OvAdvance(p)
    /\ UNCHANGED << refVars, whVars, environ, parsed, logtext, readres, traffic, package,
                    engine >>

\* the atomic block of run p ends: commit, conn.close(), return summaries
OvCommit(p) ==
    /\ ov[p].pc = "commit"
    /\ store' = [ T \in TableSet |-> CommitOf(store[T], p) ]
    /\ ov' = [ ov EXCEPT ![p].pc = "returned" ]
    /\ UNCHANGED << refVars, whVars, environ, parsed, logtext, readres, traffic, package,
                    engine >>

\* the delete of run p waits too long (the lock wait timeout, `timeout: 30`): the
\* statement fails, the transaction is rolled back, the error propagates
OvTimeout(p) ==
    /\ ov[p].pc = "delete"
    /\ Blocked(p)
    /\ store' = [ T \in TableSet |-> RollbackOf(store[T], p) ]
    /\ ov' = [ ov EXCEPT ![p].pc = "raised" ]
    /\ UNCHANGED << refVars, whVars, environ, parsed, logtext, readres, traffic, package,
                    engine >>

\* the cache holds what an earlier sync of both sources stored
StoredBy(dA, dB) ==
    [ T \in TableSet |->
        LET t == CHOOSE n \in 1..Len(Tables) : Tables[n] = T
            items == Items(t, SrcA, SourceTable(dA, t)) \o Items(t, SrcB, SourceTable(dB, t))
        IN  [ i \in 1..Len(items) |-> Version(items[i], 0) ] ]

OverlapInit ==
    /\ engine \in Engines
    /\ \E d \in DataSetIds : refData = [ n \in SourceNames |-> IF n = OvSource THEN d ELSE 1 ]
    /\ \E d \in DataSetIds : store = StoredBy(d, 1)
    /\ ov = [ p \in Runs |-> [ pc |-> "idle", tab |-> 1, rows |-> << >> ] ]
    /\ environ = [ MARIA_SOURCES |-> << >>, MARIA_PORT |-> Null ]
    /\ parsed = NoCall
    /\ logtext = [ exists |-> FALSE, lines |-> << >> ]
    /\ readres = NoRead
    /\ traffic = NoTraffic
    /\ package = NoCall
    /\ RefIdle
    /\ srcFacts = [ n \in SourceNames |-> 0 ]
    /\ WhIdle

OverlapNext ==
    \/ \E p \in Runs : OvFetch(p)
    \/ \E p \in Runs : OvDelete(p)
    \/ \E p \in Runs : OvInsert(p)
    \/ \E p \in Runs : OvCommit(p)
    \/ \E p \in Runs : OvTimeout(p)

SpecOverlap == OverlapInit /\ [][OverlapNext]_vars

(***************************************************************************)
(* Claims on two reference syncs at once                                   *)
(***************************************************************************)
\* the rows of the source a reader finds in a table, and the rows a run fetched for it
StoredRows(T) == ItemsOf(CommittedRows(store[T]), OvSource)
FetchedRows(T) == Items(TableNo(T), OvSource, SourceTable(refData[OvSource], TableNo(T)))
InAtomic(p) == ov[p].pc \in { "delete", "insert", "commit" }

\* C24: nothing keeps two runs for the same source apart: both can be inside the
\* atomic block at once, and then a step either leaves the rows a reader finds for
\* the source in a table, or replaces them by the fetched rows, or, when the deletes
\* of both runs came before the inserts of either, stores the fetched rows a second
\* time; inside its transaction a run finds the table empty between its delete and
\* its insert although the source is not empty
C24_OverlapDoublesRows ==
    [][ \A T \in TableSet :
          LET before == StoredRows(T)
              after == ItemsOf(CommittedRows(store'[T]), OvSource)
          IN  /\ \/ after = before
                 \/ after = FetchedRows(T)
                 \/ /\ before = FetchedRows(T)
                    /\ after = FetchedRows(T) \o FetchedRows(T)
                    /\ engine = "mysql"
              /\ \A p \in Runs :
                   (ov[p].pc = "delete" /\ ov'[p].pc = "insert" /\ Tables[ov[p].tab] = T) =>
                       /\ ItemsOf(ViewOf(store'[T], p), OvSource) = << >>
                       /\ FetchedRows(T) # << >> ]_vars

\* both runs have returned and a table holds the fetched rows of the source twice
C24_Witness ==
    /\ \A p \in Runs : ov[p].pc = "returned"
    /\ \E T \in TableSet :
         /\ FetchedRows(T) # << >>
         /\ StoredRows(T) = FetchedRows(T) \o FetchedRows(T)

(***************************************************************************)
(* More claims on the backfill                                             *)
(***************************************************************************)
\* no source holds a live row created on or after the cutoff of the running backfill
NoLiveRows ==
    \A n \in SourceNames :
        FetchMariaRows(n, srcFacts[n], None, None, wargs.start, None) = << >>

\* a backfill that passed its checks and cannot succeed: no source has a live row,
\* or a fetch of live rows or of the reseller map failed, or the loop found no row
BackfillDoomed ==
    /\ wcmd = "backfill"
    /\ werr \notin { "config", "validation" }
    /\ NoLiveRows \/ werr \in { "fetch", "no_rows" }

\* C31: when no source returns a live row on or after the cutoff, or a fetch of live
\* rows or of the reseller map fails, the backfill does not return: it ends with an
\* error, the create-or-replace statement is not issued, the target holds what it
\* held before, no backfill_success event is appended, and when the error has left
\* the command neither stage table exists
C31_BackfillFailsWithoutReplacing ==
    BackfillDoomed =>
        /\ wpc # "returned"
        /\ ~Submitted("create_or_replace")
        /\ target = wpre
        /\ ~Logged("backfill_success")
        /\ wpc = "raised" =>
              /\ werr \in { "fetch", "no_rows" }
              /\ mariaStage = Absent
              /\ mapStage = Absent

\* the fetch of a reseller map failed after live rows were staged, and the target
\* still holds the rows of an earlier command
C31_Witness ==
    /\ wcmd = "backfill"
    /\ wpc = "raised"
    /\ werr = "fetch"
    /\ Submitted("load_maria_stage")
    /\ mariaStage = Absent
    /\ target # << >>
    /\ target = wpre

====
